---- MODULE Spec2Model ----
(***************************************************************************)
(* A model of the gnark constraint solver: the value store (set), the term *)
(* evaluator (accumulateInto), the R1C solver (solveR1C), the hint         *)
(* resolver (solveWithHint), the construction of the solver (newSolver)    *)
(* and the level scheduler (run) with its worker pool, task queue, error   *)
(* channel and wait group.                                                 *)
(*                                                                         *)
(* Source: constraint/bls12-381/solver.go.  Wire ids, coefficient ids,     *)
(* constraint ids and positions in a level are 0-based as in the source.   *)
(* Field elements are the integers 0..q-1 of a small prime field.          *)
(***************************************************************************)
EXTENDS Integers, Sequences, FiniteSets, TLC

(***************************************************************************)
(* Bounds of the model.                                                    *)
(***************************************************************************)
\* index of the field modulus in Primes
QIndex == 2
\* the configured worker count nbTasks ranges over 1..MaxNbTasks
MaxNbTasks == 2
\* a parallel level holds minWorkPerCPU + ExtraWork instructions
ExtraWork == 1

Primes == <<2, 3, 5, 7, 11, 13>>

\* solver.q, the modulus of the scalar field (a small prime here)
q == Primes[QIndex + 1]

\* const minWorkPerCPU = 50.0
minWorkPerCPU == 50

Fr == 0..(q - 1)

(***************************************************************************)
(* fr.Element arithmetic (exact arithmetic in the prime field).            *)
(***************************************************************************)
Add(x, y) == (x + y) % q
Sub(x, y) == (x - y + q) % q
Mul(x, y) == (x * y) % q
\* a slip in the negation: the element is left as it is
Neg_Keep(x) == x
Neg(x) == (q - x) % q
Double(x) == (2 * x) % q
\* fr.Element.Inverse: the inverse of 0 is 0
Inverse(x) == IF x = 0 THEN 0 ELSE CHOOSE y \in Fr : (x * y) % q = 1
Div(x, y) == Mul(x, Inverse(y))
\* a slip in the conversion: the integer is stored as it is
SetBigInt_NoReduce(z) == z

\* fr.Element.SetBigInt: reduction of an arbitrary integer modulo q
SetBigInt(z) == z % q

(***************************************************************************)
(* constraint.Term and the reserved coefficient ids.                       *)
(***************************************************************************)
CoeffIdZero == 0
CoeffIdOne == 1
CoeffIdTwo == 2
CoeffIdMinusOne == 3

T(cid, vid) == [CID |-> cid, VID |-> vid]
\* a constant term carries no wire: its VID is the reserved marker
IsConstant(t) == t.VID < 0

\* system.Coefficients: ids 0..3 are 0, 1, 2, -1; id 4 is a generic entry
Coefficients == [i \in 0..4 |->
    CASE i = 0 -> 0
      [] i = 1 -> 1
      [] i = 2 -> 2 % q
      [] i = 3 -> q - 1
      [] OTHER -> 3 % q]

(***************************************************************************)
(* Errors.  The nil error is NoErr.                                        *)
(***************************************************************************)
Err(kind, cid) == [kind |-> kind, CID |-> cid]
NoErr == Err("nil", 0)
ErrMissingHint == Err("missing hint function", 0)
ErrIncomplete == Err("solver didn't assign a value to all wires", 0)
\* the error an external hint function returns
ErrHint(id) == Err("hint", id)
\* wrapErrWithDebugInfo: UnsatisfiedConstraintError{CID: cID}
wrapErrWithDebugInfo(cID, err) == Err("unsatisfied", cID)
\* the error the Solve of a blueprint returns
ErrSolve == Err("solve", 0)

NoPanic == [msg |-> "", by |-> -1]
PanicSameWire == "solving the same wire twice should never happen."
PanicTwoWires == "found more than one wire to instantiate"
PanicDivZero == "division by 0"

(***************************************************************************)
(* Instructions.  An instruction is a constraint (blueprint R1C), a hint   *)
(* (blueprint Hint) or of a blueprint the solver does not know ("Other").  *)
(* cID is inst.ConstraintOffset.                                           *)
(***************************************************************************)
R1C(cID, L, R, O) ==
    [kind |-> "R1C", cID |-> cID, L |-> L, R |-> R, O |-> O,
     HintID |-> 0, Inputs |-> <<>>, Start |-> 0, End |-> 0,
     Implements |-> {"BlueprintR1C"}, Solve |-> ""]
\* constraint.HintMapping: HintID, Inputs, OutputRange [Start, End)
Hint(cID, id, inputs, start, end) ==
    [kind |-> "Hint", cID |-> cID, L |-> <<>>, R |-> <<>>, O |-> <<>>,
     HintID |-> id, Inputs |-> inputs, Start |-> start, End |-> end,
     Implements |-> {"BlueprintHint"}, Solve |-> ""]
Other(cID) ==
    [kind |-> "Other", cID |-> cID, L |-> <<>>, R |-> <<>>, O |-> <<>>,
     HintID |-> 0, Inputs |-> <<>>, Start |-> 0, End |-> 0,
     Implements |-> {}, Solve |-> ""]
\* an instruction whose blueprint implements the interfaces of the set
\* implements: decoded as an R1C it is x * 1 == y, decoded as a hint it is
\* function id over x + (wire 0) with output wire 3, and its own Solve, if it has
\* one, is solve ("set": it sets wire 2; "fail": it returns an error)
Custom(cID, implements, solve, id) ==
    [kind |-> "Custom", cID |-> cID,
     L |-> <<T(CoeffIdOne, 1)>>, R |-> <<T(CoeffIdOne, 0)>>, O |-> <<T(CoeffIdOne, 2)>>,
     HintID |-> id, Inputs |-> <<(<<T(CoeffIdOne, 1), T(CoeffIdOne, 0)>>)>>,
     Start |-> 3, End |-> 4,
     Implements |-> implements, Solve |-> solve]

\* the term 1 * ONE_WIRE
One == T(CoeffIdOne, 0)
\* an assertion with no unknown: 1 * 1 == 1
Filler(cID) == R1C(cID, <<One>>, <<One>>, <<One>>)

\* number of instructions of a level that is large enough to be parallelized
BigLen == minWorkPerCPU + ExtraWork

(***************************************************************************)
(* The constraint systems the solver is run on (all of type R1CS, wire 0   *)
(* is the ONE wire, wire 1 is the public input x).  A system record holds  *)
(* the fields of cs that the solver reads, and with them the registry of   *)
(* hint functions given in the solver options (mHintsFunctions).           *)
(*  mul     x * x == y, y internal (the end-to-end example)                *)
(*  assert  x * x == y, y given by the witness                             *)
(*  par     a sequential level, a large level, a sequential level; the     *)
(*          large level holds two solved wires and two assertions that     *)
(*          depend on x, all mutually independent                          *)
(*  dup     a malformed large level: two instructions of different chunks  *)
(*          target wire 2, and no instruction assigns wire 3               *)
(*  hint    a hint with two outputs followed by a constraint               *)
(*  hinterr a hint whose function returns an error                         *)
(*  twopar  two large levels of assertions with no unknown, over the ONE   *)
(*          wire alone (the witness is empty)                              *)
(***************************************************************************)
ScnNames == {"mul", "assert", "par", "dup", "hint", "hinterr", "twopar"}

MulR1C == R1C(0, <<T(CoeffIdOne, 1)>>, <<T(CoeffIdOne, 1)>>, <<T(CoeffIdOne, 2)>>)

\* (x - 1) * (x - k) == 0
RootsR1C(cID, k) ==
    R1C(cID, <<T(CoeffIdOne, 1), T(CoeffIdMinusOne, 0)>>,
             IF k = 2 THEN <<T(CoeffIdOne, 1), T(CoeffIdMinusOne, 0), T(CoeffIdMinusOne, 0)>>
                      ELSE <<T(CoeffIdOne, 1), T(CoeffIdMinusOne, 0), T(CoeffIdMinusOne, 0),
                             T(CoeffIdMinusOne, 0)>>,
             <<T(CoeffIdZero, 0)>>)

ParInstructions == [i \in 0..(BigLen + 1) |->
    CASE i = 0 -> R1C(0, <<T(CoeffIdOne, 1)>>, <<T(CoeffIdOne, 1)>>, <<T(CoeffIdOne, 2)>>)
      [] i = 2 -> RootsR1C(2, 3)
      [] i = 3 -> R1C(3, <<T(CoeffIdOne, 2), One>>, <<One>>, <<T(CoeffIdOne, 3)>>)
      [] i = 28 -> RootsR1C(28, 2)
      [] i = 29 -> R1C(29, <<T(CoeffIdOne, 4)>>, <<T(CoeffIdOne, 1)>>, <<T(CoeffIdOne, 2)>>)
      [] i = BigLen + 1 ->
            R1C(i, <<T(CoeffIdOne, 3)>>, <<T(CoeffIdOne, 4)>>, <<T(CoeffIdMinusOne, 5)>>)
      [] OTHER -> Filler(i)]

DupInstructions == [i \in 0..(BigLen - 1) |->
    CASE i = 1 -> R1C(1, <<T(CoeffIdOne, 1)>>, <<One>>, <<T(CoeffIdOne, 2)>>)
      [] i = 27 -> R1C(27, <<T(CoeffIdOne, 1)>>, <<T(CoeffIdOne, 1)>>, <<T(CoeffIdOne, 2)>>)
      [] OTHER -> Filler(i)]

HintInstructions(id) == [i \in 0..1 |->
    IF i = 0 THEN Hint(0, id, <<(<<T(CoeffIdOne, 1), One>>), (<<T(4, 1)>>)>>, 2, 4)
             ELSE R1C(0, <<T(CoeffIdOne, 2)>>, <<T(CoeffIdTwo, 3)>>, <<T(CoeffIdOne, 4)>>)]

System(nbPublic, nbSecret, nbInternal, nbConstraints, instructions, levels, hints) ==
    [Type |-> "R1CS", nbPublic |-> nbPublic, nbSecret |-> nbSecret,
     NbInternalVariables |-> nbInternal, nbConstraints |-> nbConstraints,
     Instructions |-> instructions, Levels |-> levels,
     MHintsDependencies |-> hints, mHintsFunctions |-> hints]

Systems == [s \in ScnNames |->
    CASE s = "mul" -> System(2, 0, 1, 1, [i \in 0..0 |-> MulR1C], <<(<<0>>)>>, {})
      [] s = "assert" -> System(3, 0, 0, 1, [i \in 0..0 |-> MulR1C], <<(<<0>>)>>, {})
      [] s = "par" -> System(2, 0, 4, BigLen + 2, ParInstructions,
                             <<(<<0>>), [p \in 1..BigLen |-> p], (<<BigLen + 1>>)>>, {})
      [] s = "dup" -> System(2, 0, 2, BigLen, DupInstructions,
                             <<[p \in 1..BigLen |-> p - 1]>>, {})
      [] s = "hint" -> System(2, 0, 3, 1, HintInstructions(1), <<(<<0>>), (<<1>>)>>, {1, 2})
      [] s = "twopar" -> System(1, 0, 0, 2 * BigLen, [i \in 0..(2 * BigLen - 1) |-> Filler(i)],
                                <<[p \in 1..BigLen |-> p - 1],
                                  [p \in 1..BigLen |-> BigLen + p - 1]>>, {})
      [] OTHER -> System(2, 0, 3, 1, HintInstructions(2), <<(<<0>>), (<<1>>)>>, {1, 2})]

(***************************************************************************)
(* One-instruction systems over the wires 0..3, solved by the calling      *)
(* thread alone.  Wire 1 is x, wire 2 is y, wire 3 is z; z is internal, y  *)
(* is public (given by the witness) or internal.                           *)
(*  UnitR1CS   one constraint L * R == O, each side one of LinExps         *)
(*  UnitHints  one hint of id 1..3 with two inputs and an output range     *)
(*             within the wires 1..3, in a system of type R1CS or          *)
(*             SparseR1CS that depends on the hints 1 and 2, with a        *)
(*             registry that holds both or only the first; the inputs are  *)
(*             over x alone or, malformed, over the internal wire z too    *)
(***************************************************************************)
LinExps ==
    { <<T(CoeffIdOne, 1)>>,                   \* x
      <<T(CoeffIdOne, 2)>>,                   \* y
      <<T(4, 2)>>,                            \* 3 * y
      <<T(CoeffIdZero, 2)>>,                  \* 0 * y
      <<T(CoeffIdMinusOne, 3)>>,              \* -z
      <<T(CoeffIdTwo, 3)>>,                   \* 2 * z
      <<T(CoeffIdOne, 2), T(CoeffIdTwo, 2)>>  \* y + 2 * y
    }

UnitR1CS ==
    { System(np, 0, 4 - np, 1, [i \in 0..0 |-> R1C(0, L, R, O)], <<(<<0>>)>>, {1, 2}) :
        np \in 2..3, L \in LinExps, R \in LinExps, O \in LinExps }

HintInputs == <<(<<T(CoeffIdOne, 1), One>>), (<<T(4, 1)>>)>>
HintInputsOverZ == <<(<<T(CoeffIdOne, 3), One>>), (<<T(4, 1)>>)>>

UnitHints ==
    { [System(2, 0, 2, 0, [i \in 0..0 |-> Hint(0, r[1], r[6], r[2], r[3])],
              <<(<<0>>)>>, r[4])
          EXCEPT !.Type = r[5], !.MHintsDependencies = {1, 2}] :
        r \in { r \in (1..3) \X (1..2) \X (2..4) \X {{1, 2}, {1}, {1, 2, 3}} \X {"R1CS", "SCS"}
                       \X {HintInputs, HintInputsOverZ} :
                  r[2] <= r[3] } }

\* one instruction of every combination of blueprint interfaces, in a
\* system of either type, with a Solve that sets a wire or fails
Interfaces == {"BlueprintR1C", "BlueprintSolvable", "BlueprintHint"}
UnitBlueprints ==
    { [System(2, 0, 2, 2, [i \in 0..0 |-> Custom(cID, impl, sv, id)], <<(<<0>>)>>, {1, 2})
          EXCEPT !.Type = ty] :
        cID \in 0..1, impl \in SUBSET Interfaces, sv \in {"set", "fail"},
        id \in 1..2, ty \in {"R1CS", "SCS"} }

UnitSystems == UnitR1CS \cup UnitHints \cup UnitBlueprints

(***************************************************************************)
(* Systems of one level of n assertions with no unknown, over the ONE wire *)
(* alone, for a worker count up to MaxWorkers: the levels run splits into  *)
(* up to MaxWorkers slices.                                                *)
(***************************************************************************)
MaxWorkers == MaxNbTasks + 2
MaxLevelLen == (MaxWorkers - 1) * minWorkPerCPU + ExtraWork

FillerSystem(n) ==
    System(1, 0, 0, n, [i \in 0..(n - 1) |-> Filler(i)], <<[p \in 1..n |-> p - 1]>>, {})

(***************************************************************************)
(* External hint functions f(q, inputs, outputs) error.  Function 1 writes *)
(* q + (sum of the inputs) + i to output i; function 2 leaves the outputs  *)
(* as it found them (zero) and returns an error; function 3 writes the     *)
(* outputs and then returns an error.                                      *)
(***************************************************************************)
RECURSIVE SumSeq(_)
SumSeq(s) == IF s = <<>> THEN 0 ELSE Head(s) + SumSeq(Tail(s))

HintFn(id, inputs, nbOutputs) ==
    IF id = 1
    THEN [outputs |-> [i \in 1..nbOutputs |-> q + SumSeq(inputs) + (i - 1)], err |-> NoErr]
    ELSE IF id = 3
    THEN [outputs |-> [i \in 1..nbOutputs |-> SumSeq(inputs) + i], err |-> ErrHint(id)]
    ELSE [outputs |-> [i \in 1..nbOutputs |-> 0], err |-> ErrHint(id)]

(***************************************************************************)
(* newSolver: the solver state after construction.  S is a record of the   *)
(* solver's fields values, solved, nbSolved, a, b, c.                      *)
(***************************************************************************)
NbWires(cs) == cs.nbPublic + cs.nbSecret + cs.NbInternalVariables
\* a slip in newSolver: no ONE wire is accounted for
WitnessOffset_Zero(cs) == 0

WitnessOffset(cs) == IF cs.Type = "R1CS" THEN 1 ELSE 0
ExpectedWitnessSize(cs) == cs.nbPublic - WitnessOffset(cs) + cs.nbSecret

\* the length of the vectors a, b, c: allocated for a system of type R1CS only
NbABC(cs) == IF cs.Type = "R1CS" THEN cs.nbConstraints ELSE 0

\* the checks of newSolver before the solver is built: the size of the
\* witness, then the presence of every hint function the system depends on
ErrWitnessSize == Err("invalid witness size", 0)
ErrMissingHints == Err("solver missing hint(s)", 0)

\* a slip in the size check: the ONE wire is counted as a witness element
witnessSizeOK_NoOffset(cs, witness) == Len(witness) = cs.nbPublic + cs.nbSecret

witnessSizeOK(cs, witness) == Len(witness) = ExpectedWitnessSize(cs)

newSolverErr(cs, witness) ==
    IF ~witnessSizeOK(cs, witness) THEN ErrWitnessSize
    ELSE IF \E id \in cs.MHintsDependencies : id \notin cs.mHintsFunctions
    THEN ErrMissingHints
    ELSE NoErr

newSolver(cs, witness) ==
    LET off == WitnessOffset(cs) IN
    [values |-> [w \in 0..(NbWires(cs) - 1) |->
                    IF off = 1 /\ w = 0 THEN 1
                    ELSE IF w >= off /\ w < off + Len(witness) THEN witness[w - off + 1]
                    ELSE 0],
     solved |-> [w \in 0..(NbWires(cs) - 1) |->
                    (off = 1 /\ w = 0) \/ (w >= off /\ w < off + Len(witness))],
     nbSolved |-> Len(witness) + off,
     a |-> [i \in 0..(NbABC(cs) - 1) |-> 0],
     b |-> [i \in 0..(NbABC(cs) - 1) |-> 0],
     c |-> [i \in 0..(NbABC(cs) - 1) |-> 0]]

(***************************************************************************)
(* accumulateInto: r += t.coeff * t.value, with the fast paths of the      *)
(* reserved coefficient ids.  The wire's solved flag is not consulted.     *)
(***************************************************************************)
\* a slip in accumulateInto: the fast path of -1 adds the value
accumulateInto_MinusAdds(S, t, r) ==
    IF IsConstant(t) THEN Add(r, Coefficients[t.CID])
    ELSE CASE t.CID = CoeffIdZero -> r
           [] t.CID = CoeffIdOne -> Add(r, S.values[t.VID])
           [] t.CID = CoeffIdTwo -> Add(r, Double(S.values[t.VID]))
           [] t.CID = CoeffIdMinusOne -> Add(r, S.values[t.VID])
           [] OTHER -> Add(r, Mul(Coefficients[t.CID], S.values[t.VID]))

accumulateInto(S, t, r) ==
    IF IsConstant(t) THEN Add(r, Coefficients[t.CID])
    ELSE CASE t.CID = CoeffIdZero -> r
           [] t.CID = CoeffIdOne -> Add(r, S.values[t.VID])
           [] t.CID = CoeffIdTwo -> Add(r, Double(S.values[t.VID]))
           [] t.CID = CoeffIdMinusOne -> Sub(r, S.values[t.VID])
           [] OTHER -> Add(r, Mul(Coefficients[t.CID], S.values[t.VID]))

PanicUnsolvedTerm == "computing a term with an unsolved wire"

\* a slip in computeTerm: no test of the solved flag
computeTerm_NoCheck(S, t) ==
    [panic |-> "",
     res |-> IF IsConstant(t) THEN Coefficients[t.CID]
             ELSE Mul(Coefficients[t.CID], S.values[t.VID])]

\* solver.computeTerm: coeff * variable, or the panic it ends in
computeTerm(S, t) ==
    IF IsConstant(t) THEN [panic |-> "", res |-> Coefficients[t.CID]]
    ELSE IF t.CID # 0 /\ ~S.solved[t.VID] THEN [panic |-> PanicUnsolvedTerm, res |-> 0]
    ELSE [panic |-> "",
          res |-> CASE t.CID = CoeffIdZero -> 0
                    [] t.CID = CoeffIdOne -> S.values[t.VID]
                    [] t.CID = CoeffIdTwo -> Double(S.values[t.VID])
                    [] t.CID = CoeffIdMinusOne -> Neg(S.values[t.VID])
                    [] OTHER -> Mul(Coefficients[t.CID], S.values[t.VID])]

\* solution.computeTerm (bn254), which has no case for a constant term and
\* is called on terms over a wire
solution_computeTerm(S, t) ==
    IF t.CID # 0 /\ ~S.solved[t.VID] THEN [panic |-> PanicUnsolvedTerm, res |-> 0]
    ELSE [panic |-> "",
          res |-> CASE t.CID = CoeffIdZero -> 0
                    [] t.CID = CoeffIdOne -> S.values[t.VID]
                    [] t.CID = CoeffIdTwo -> Double(S.values[t.VID])
                    [] t.CID = CoeffIdMinusOne -> Neg(S.values[t.VID])
                    [] OTHER -> Mul(Coefficients[t.CID], S.values[t.VID])]

(***************************************************************************)
(* logValue.  A log entry holds a format, the linear expressions to        *)
(* resolve and a stack of location ids of the symbol table.                *)
(***************************************************************************)
unsolvedVariable == "<unsolved>"

Digit(d) ==
    CASE d = 0 -> "0" [] d = 1 -> "1" [] d = 2 -> "2" [] d = 3 -> "3" [] d = 4 -> "4"
      [] d = 5 -> "5" [] d = 6 -> "6" [] d = 7 -> "7" [] d = 8 -> "8" [] OTHER -> "9"

\* strconv.Itoa of a natural number
RECURSIVE Itoa(_)
Itoa(n) == IF n < 10 THEN Digit(n) ELSE Itoa(n \div 10) \o Digit(n % 10)

\* fr.Element.String(): the element in base 10
String(x) == Itoa(x % q)

\* fmt.Sprintf(format, args...): the format and what is substituted in it
Sprintf(format, args) == [format |-> format, args |-> args]

SymbolTable ==
    [Locations |-> <<[FunctionID |-> 1, Line |-> 7], [FunctionID |-> 1, Line |-> 12]>>,
     Functions |-> <<[Name |-> "main.f", Filename |-> "f.go"]>>]

\* the text built from log.Stack
RECURSIVE StackString(_)
StackString(stack) ==
    IF stack = <<>> THEN ""
    ELSE LET location == SymbolTable.Locations[Head(stack)]
             function == SymbolTable.Functions[location.FunctionID]
         IN  function.Name \o "\n\t" \o function.Filename \o ":" \o Itoa(location.Line)
                 \o "\n" \o StackString(Tail(stack))

\* a slip in logValue: the accumulator is not reset between expressions
SetZero_Keep(eval) == eval

\* eval.SetZero()
SetZero(eval) == 0

\* the loop over the terms of one expression
RECURSIVE logTerms(_, _, _)
logTerms(S, l, eval) ==
    IF l = <<>> THEN [panic |-> "", missingValue |-> FALSE, eval |-> eval]
    ELSE LET t == Head(l) IN
         IF IsConstant(t) THEN logTerms(S, Tail(l), Add(eval, Coefficients[t.CID]))
         ELSE IF ~S.solved[t.VID] THEN [panic |-> "", missingValue |-> TRUE, eval |-> eval]
         ELSE LET tv == computeTerm(S, t) IN
              IF tv.panic # "" THEN [panic |-> tv.panic, missingValue |-> FALSE, eval |-> eval]
              ELSE logTerms(S, Tail(l), Add(eval, tv.res))

\* the loop over log.ToResolve
RECURSIVE logResolve(_, _, _, _)
logResolve(S, exps, eval, toResolve) ==
    IF exps = <<>> THEN [panic |-> "", toResolve |-> toResolve]
    ELSE LET r == logTerms(S, Head(exps), SetZero(eval)) IN
         IF r.panic # "" THEN [panic |-> r.panic, toResolve |-> toResolve]
         ELSE logResolve(S, Tail(exps), r.eval,
                         Append(toResolve, IF r.missingValue THEN unsolvedVariable
                                                             ELSE String(r.eval)))

logValue(S, log) ==
    LET r == logResolve(S, log.ToResolve, 0, <<>>) IN
    IF r.panic # "" THEN [panic |-> r.panic, res |-> Sprintf(log.Format, r.toResolve)]
    ELSE [panic |-> "",
          res |-> Sprintf(log.Format,
                          IF Len(log.Stack) > 0
                          THEN Append(r.toResolve, StackString(log.Stack))
                          ELSE r.toResolve)]

\* a slip in divByCoeff: the term is multiplied by its coefficient
divByCoeff_Mul(res, cID) ==
    CASE cID = CoeffIdOne -> [panic |-> "", res |-> res]
      [] cID = CoeffIdMinusOne -> [panic |-> "", res |-> Neg(res)]
      [] cID = CoeffIdZero -> [panic |-> PanicDivZero, res |-> res]
      [] OTHER -> [panic |-> "", res |-> Mul(res, Coefficients[cID])]

\* divByCoeff: res = res / t.Coeff
divByCoeff(res, cID) ==
    CASE cID = CoeffIdOne -> [panic |-> "", res |-> res]
      [] cID = CoeffIdMinusOne -> [panic |-> "", res |-> Neg(res)]
      [] cID = CoeffIdZero -> [panic |-> PanicDivZero, res |-> res]
      [] OTHER -> [panic |-> "", res |-> Div(res, Coefficients[cID])]

(***************************************************************************)
(* solveR1C up to its call of set.  st holds the accumulators a, b, c of   *)
(* the constraint, loc (0: no unknown, 1/2/3: unknown in L/R/O) and        *)
(* termToCompute.                                                          *)
(***************************************************************************)
\* a slip in processLExp: a second unsolved term replaces the first
secondUnknown_Never(st) == FALSE

\* if loc != 0: an unsolved term was found before this one
secondUnknown(st) == st.loc # 0

\* a slip in solveR1C: the opposing factor is never taken to be zero
IsZero_Never(x) == FALSE

\* fr.Element.IsZero
IsZero(x) == x = 0

RECURSIVE processLExp(_, _, _, _)
processLExp(S, l, st, locValue) ==
    IF l = <<>> \/ st.panic # "" THEN st
    ELSE LET t == Head(l) IN
         IF S.solved[t.VID]
         THEN processLExp(S, Tail(l),
                  CASE locValue = 1 -> [st EXCEPT !.a = accumulateInto(S, t, @)]
                    [] locValue = 2 -> [st EXCEPT !.b = accumulateInto(S, t, @)]
                    [] OTHER -> [st EXCEPT !.c = accumulateInto(S, t, @)],
                  locValue)
         ELSE IF secondUnknown(st) THEN [st EXCEPT !.panic = PanicTwoWires]
         ELSE processLExp(S, Tail(l), [st EXCEPT !.termToCompute = t, !.loc = locValue],
                          locValue)

\* the result of an instruction before its calls of set: a panic, or the new
\* accumulators, the (wire, value) pairs to set in order, the error returned
\* once they are set, and the calls <<id, inputs>> made of external functions
Outcome(panic, err, a, b, c, sets) ==
    [panic |-> panic, err |-> err, a |-> a, b |-> b, c |-> c, sets |-> sets,
     calls |-> <<>>]

\* a slip in the check: the sum of the sides instead of their product
checkR1C_Sum(a, b, c) == Add(a, b) = c

\* check.Mul(a, b).Equal(c)
checkR1C(a, b, c) == Mul(a, b) = c

solveR1C(S, cID, r) ==
    LET st0 == [a |-> S.a[cID], b |-> S.b[cID], c |-> S.c[cID], loc |-> 0,
                termToCompute |-> T(0, 0), panic |-> ""]
        st == processLExp(S, r.O, processLExp(S, r.R, processLExp(S, r.L, st0, 1), 2), 3)
        a == st.a
        b == st.b
        c == st.c
        Keep(x, v) == [x EXCEPT ![cID] = v]
        unsat == Outcome("", wrapErrWithDebugInfo(cID, NoErr),
                         Keep(S.a, a), Keep(S.b, b), Keep(S.c, c), <<>>)
        \* the tail of solveR1C: divByCoeff, then set
        Finish(wire, a2, b2, c2) ==
            LET d == divByCoeff(wire, st.termToCompute.CID) IN
            Outcome(d.panic, NoErr, Keep(S.a, a2), Keep(S.b, b2), Keep(S.c, c2),
                    IF d.panic # "" THEN <<>> ELSE <<(<<st.termToCompute.VID, d.res>>)>>)
    IN  IF st.panic # "" THEN Outcome(st.panic, NoErr, S.a, S.b, S.c, <<>>)
        ELSE IF st.loc = 0
        THEN IF ~checkR1C(a, b, c) THEN unsat
             ELSE Outcome("", NoErr, Keep(S.a, a), Keep(S.b, b), Keep(S.c, c), <<>>)
        ELSE IF st.loc = 1
        THEN IF ~IsZero(b) THEN LET wire == Sub(Div(c, b), a) IN Finish(wire, Add(a, wire), b, c)
             ELSE IF ~checkR1C(a, b, c) THEN unsat
             ELSE Finish(0, a, b, c)
        ELSE IF st.loc = 2
        THEN IF ~IsZero(a) THEN LET wire == Sub(Div(c, a), b) IN Finish(wire, a, Add(b, wire), c)
             ELSE IF ~checkR1C(a, b, c) THEN unsat
             ELSE Finish(0, a, b, c)
        ELSE LET wire == Sub(Mul(a, b), c) IN Finish(wire, a, b, Add(c, wire))

(***************************************************************************)
(* solveWithHint up to its calls of set: the lookup of the function, the   *)
(* evaluation of the inputs and the call.                                  *)
(***************************************************************************)
RECURSIVE evalInput(_, _, _)
evalInput(S, terms, v) ==
    IF terms = <<>> THEN v
    ELSE LET term == Head(terms) IN
         evalInput(S, Tail(terms),
                   IF IsConstant(term) THEN Add(v, Coefficients[term.CID])
                   ELSE accumulateInto(S, term, v))

\* a slip in the lookup: every id is taken to be registered
hintRegistered_Always(cs, id) == TRUE

\* f, ok := s.mHintsFunctions[h.HintID]
hintRegistered(cs, id) == id \in cs.mHintsFunctions

\* a slip in solveWithHint: the error of the function is returned before the
\* outputs are set
solveWithHint_ReturnEarly(S, cs, h) ==
    IF ~hintRegistered(cs, h.HintID)
    THEN Outcome("", ErrMissingHint, S.a, S.b, S.c, <<>>)
    ELSE LET nbInputs == Len(h.Inputs)
             nbOutputs == h.End - h.Start
             inputs == [i \in 1..nbInputs |-> evalInput(S, h.Inputs[i], 0)]
             f == HintFn(h.HintID, inputs, nbOutputs)
         IN  [Outcome("", f.err, S.a, S.b, S.c,
                      IF f.err # NoErr THEN <<>>
                      ELSE [i \in 1..nbOutputs |->
                               <<h.Start + (i - 1), SetBigInt(f.outputs[i])>>])
                 EXCEPT !.calls = <<(<<h.HintID, inputs>>)>>]

solveWithHint(S, cs, h) ==
    IF ~hintRegistered(cs, h.HintID)
    THEN Outcome("", ErrMissingHint, S.a, S.b, S.c, <<>>)
    ELSE LET nbInputs == Len(h.Inputs)
             nbOutputs == h.End - h.Start
             inputs == [i \in 1..nbInputs |-> evalInput(S, h.Inputs[i], 0)]
             f == HintFn(h.HintID, inputs, nbOutputs)
         IN  [Outcome("", f.err, S.a, S.b, S.c,
                      [i \in 1..nbOutputs |->
                          <<h.Start + (i - 1), SetBigInt(f.outputs[i])>>])
                 EXCEPT !.calls = <<(<<h.HintID, inputs>>)>>]

\* bc, ok := blueprint.(constraint.BlueprintR1C), and likewise for the
\* interfaces BlueprintSolvable and BlueprintHint
isBlueprintR1C(inst) == "BlueprintR1C" \in inst.Implements
\* a slip in the type switch: no blueprint is taken to solve itself
isBlueprintSolvable_Never(inst) == FALSE
isBlueprintSolvable(inst) == "BlueprintSolvable" \in inst.Implements
isBlueprintHint(inst) == "BlueprintHint" \in inst.Implements

\* bc.Solve(solver, inst): the blueprint solves the instruction itself,
\* through the methods of constraint.Solver: it sets wire 2 to
\* GetValue(CoeffIdTwo, 1) with SetValue and returns nil, or it returns an
\* error and sets nothing
Solve(S, inst) ==
    IF inst.Solve = "set"
    THEN LET v == computeTerm(S, T(CoeffIdTwo, 1)) IN
         Outcome(v.panic, NoErr, S.a, S.b, S.c, <<(<<2, v.res>>)>>)
    ELSE Outcome("", ErrSolve, S.a, S.b, S.c, <<>>)

\* a slip in processInstruction: the error of a hint is wrapped like the error
\* of a blueprint that solves itself
processInstruction_Wrap(S, cs, inst) ==
    IF cs.Type = "R1CS" /\ isBlueprintR1C(inst) THEN solveR1C(S, inst.cID, inst)
    ELSE IF isBlueprintSolvable(inst)
    THEN LET o == Solve(S, inst) IN
         [o EXCEPT !.err = IF @ = NoErr THEN @ ELSE wrapErrWithDebugInfo(inst.cID, @)]
    ELSE IF isBlueprintHint(inst)
    THEN LET o == solveWithHint(S, cs, inst) IN
         [o EXCEPT !.err = IF @ = NoErr THEN @ ELSE wrapErrWithDebugInfo(inst.cID, @)]
    ELSE Outcome("", NoErr, S.a, S.b, S.c, <<>>)

\* processInstruction up to the calls of set of the routine it dispatches to
processInstruction(S, cs, inst) ==
    IF cs.Type = "R1CS" /\ isBlueprintR1C(inst) THEN solveR1C(S, inst.cID, inst)
    ELSE IF isBlueprintSolvable(inst)
    THEN LET o == Solve(S, inst) IN
         [o EXCEPT !.err = IF @ = NoErr THEN @ ELSE wrapErrWithDebugInfo(inst.cID, @)]
    ELSE IF isBlueprintHint(inst) THEN solveWithHint(S, cs, inst)
    ELSE Outcome("", NoErr, S.a, S.b, S.c, <<>>)

(***************************************************************************)
(* set, as one uninterrupted call.                                         *)
(***************************************************************************)
set(S, id, value) ==
    IF S.solved[id] THEN [panic |-> PanicSameWire, S |-> S]
    ELSE [panic |-> "",
          S |-> [S EXCEPT !.values[id] = value, !.solved[id] = TRUE,
                          !.nbSolved = @ + 1]]

RECURSIVE setAll(_, _)
setAll(S, sets) ==
    IF sets = <<>> THEN [panic |-> "", S |-> S]
    ELSE LET r == set(S, Head(sets)[1], Head(sets)[2]) IN
         IF r.panic # "" THEN r ELSE setAll(r.S, Tail(sets))

\* one whole call of processInstruction with no other thread running
runInstruction(S, cs, inst) ==
    LET o == processInstruction(S, cs, inst)
        S1 == [S EXCEPT !.a = o.a, !.b = o.b, !.c = o.c]
    IN  IF o.panic # "" THEN [panic |-> o.panic, err |-> NoErr, S |-> S1]
        ELSE LET r == setAll(S1, o.sets) IN
             [panic |-> r.panic, err |-> o.err, S |-> r.S]

(***************************************************************************)
(* run with every level executed sequentially in the calling thread, as    *)
(* one function of the system and the witness: the reference the parallel  *)
(* executions are compared with.                                           *)
(***************************************************************************)
RECURSIVE seqLevels(_, _, _, _)
seqLevels(S, cs, k, p) ==
    IF k > Len(cs.Levels)
    THEN [panic |-> "", S |-> S,
          result |-> IF S.nbSolved # NbWires(cs) THEN ErrIncomplete ELSE NoErr]
    ELSE IF p >= Len(cs.Levels[k]) THEN seqLevels(S, cs, k + 1, 0)
    ELSE LET r == runInstruction(S, cs, cs.Instructions[cs.Levels[k][p + 1]]) IN
         IF r.panic # "" THEN [panic |-> r.panic, S |-> r.S, result |-> NoErr]
         ELSE IF r.err # NoErr THEN [panic |-> "", S |-> r.S, result |-> r.err]
         ELSE seqLevels(r.S, cs, k, p + 1)

seqRun(cs, witness) == seqLevels(newSolver(cs, witness), cs, 1, 0)

(***************************************************************************)
(* The state of one call of run.  Thread 0 is the caller of run, threads   *)
(* 1..nbTasks are the goroutines of the worker pool.                       *)
(***************************************************************************)
VARIABLES
    scn,        \* the name of the constraint system solved
    system,     \* solver.system (cs), with the registry of hint functions
    wit,        \* the witness
    nbTasks,    \* solver.nbTasks, the configured worker count
    values,     \* solver.values
    solved,     \* solver.solved
    nbSolved,   \* solver.nbSolved
    a, b, c,    \* solver.a, solver.b, solver.c
    tpc,        \* per thread: where it is in its code
    tchunk,     \* per thread: the slice <<level, _start, _end>> it iterates over
    tidx,       \* per thread: position in the level of its current instruction
    tpend,      \* per thread: the (wire, value) pairs its instruction has still to set
    terr,       \* per thread: the error its instruction returns after its sets
    lvl,        \* caller: index of the current level in solver.Levels
    loc,        \* caller: nbTasks, nbIterationsPerCpus, extraTasks, extraTasksOffset, i
    result,     \* the error run returned (that of newSolver if no solver was built)
    chTasks,    \* the task channel (capacity nbTasks)
    chError,    \* the error channel (capacity nbTasks)
    closed,     \* the deferred close(chTasks); close(chError) has run
    wg,         \* the counter of the sync.WaitGroup
    panicked,   \* the panic that aborted the program, if any
    started,    \* history: instructions whose processing has begun
    finished,   \* history: instructions whose processInstruction has returned
    failed,     \* history: instructions whose processInstruction returned an error
    errLog,     \* history: the errors sent on chError, in the order sent
    setCount,   \* history: per wire, the number of calls of set that completed
    chunks,     \* history: the slices pushed for the current level
    hintCalls,  \* history: the calls <<id, inputs>> made of external hint functions
    call,       \* the routine of the solver called on its own, with its arguments
    ret,        \* what that routine returned
    hreach,     \* per thread: the hint output wires it has still to reach
    hstack      \* per thread: its frames of solution.solveWithHint, innermost first

vars == <<scn, system, wit, nbTasks, values, solved, nbSolved, a, b, c, tpc, tchunk, tidx,
          tpend, terr, lvl, loc, result, chTasks, chError, closed, wg, panicked,
          started, finished, failed, errLog, setCount, chunks, hintCalls,
          call, ret, hreach, hstack>>

\* what run and the routines it calls leave alone
aside == <<call, ret, hreach, hstack>>
inputs == <<scn, system, wit, nbTasks>>
store == <<values, solved, nbSolved>>
abc == <<a, b, c>>
channels == <<chTasks, chError, closed, wg>>

cs == system
Threads == 0..nbTasks
Workers == 1..nbTasks
Wires == 0..(NbWires(cs) - 1)
Cur == [values |-> values, solved |-> solved, nbSolved |-> nbSolved,
        a |-> a, b |-> b, c |-> c]

\* the instruction index at position p (0-based) of level k
InstrAt(k, p) == cs.Levels[k][p + 1]
\* the instruction thread t is processing
CurInstr(t) == InstrAt(tchunk[t][1], tidx[t])

NoLoc == [nbTasks |-> 0, nbIterationsPerCpus |-> 0, extraTasks |-> 0,
          extraTasksOffset |-> 0, i |-> 0]
NoCall == [fn |-> "", args |-> <<>>]

\* no goroutine has done anything yet
Idle ==
    /\ tchunk = [t \in 0..nbTasks |-> <<0, 0, 0>>]
    /\ tidx = [t \in 0..nbTasks |-> 0]
    /\ tpend = [t \in 0..nbTasks |-> <<>>]
    /\ terr = [t \in 0..nbTasks |-> NoErr]
    /\ lvl = 1
    /\ loc = NoLoc
    /\ chTasks = <<>>
    /\ chError = <<>>
    /\ closed = FALSE
    /\ wg = 0
    /\ panicked = NoPanic
    /\ started = {}
    /\ finished = {}
    /\ failed = {}
    /\ errLog = <<>>
    /\ setCount = [w \in 0..(NbWires(system) - 1) |-> 0]
    /\ chunks = <<>>
    /\ hintCalls = <<>>
    /\ call = NoCall
    /\ ret = NoCall
    /\ hstack = [t \in 0..nbTasks |-> <<>>]

\* newSolver has returned a solver and run has started its worker pool
Built ==
    /\ LET S == newSolver(system, wit) IN
        /\ values = S.values
        /\ solved = S.solved
        /\ nbSolved = S.nbSolved
        /\ a = S.a
        /\ b = S.b
        /\ c = S.c
    /\ tpc = [t \in 0..nbTasks |-> IF t = 0 THEN "level" ELSE "recv"]
    /\ result = NoErr
    /\ hreach = [t \in 0..nbTasks |-> <<>>]

\* newSolver has returned (nil, err): there is no solver and run is not called
NoSolver ==
    /\ values = <<>>
    /\ solved = <<>>
    /\ nbSolved = 0
    /\ a = <<>>
    /\ b = <<>>
    /\ c = <<>>
    /\ tpc = [t \in 0..nbTasks |-> "nosolver"]
    /\ result = newSolverErr(system, wit)
    /\ hreach = [t \in 0..nbTasks |-> <<>>]

Init ==
    /\ scn \in ScnNames
    /\ system = Systems[scn]
    /\ nbTasks \in 1..MaxNbTasks
    /\ wit \in [1..ExpectedWitnessSize(system) -> Fr]
    /\ Built
    /\ Idle

Running == panicked = NoPanic

(***************************************************************************)
(* The level loop of run.                                                  *)
(***************************************************************************)
\* a slip in the threshold: a level of minWorkPerCPU instructions is split
isSequential_Strict(n) == n < minWorkPerCPU \/ nbTasks = 1

\* maxCPU <= 1.0 || solver.nbTasks == 1
isSequential(n) == n <= minWorkPerCPU \/ nbTasks = 1

\* int(math.Ceil(maxCPU))
maxTasks(n) == (n + minWorkPerCPU - 1) \div minWorkPerCPU

\* a slip in the partition: one slice per instruction, whatever the worker count
levelTasks_PerInstruction(n) ==
    [nbTasks |-> n, nbIterationsPerCpus |-> 1, extraTasks |-> 0, extraTasksOffset |-> 0,
     i |-> 0]

\* the number of slices of a level of n instructions and their common size
levelTasks(n) ==
    LET nbT == IF nbTasks > maxTasks(n) THEN maxTasks(n) ELSE nbTasks
        per == n \div nbT
    IN  IF per < 1
        THEN [nbTasks |-> n, nbIterationsPerCpus |-> 1, extraTasks |-> 0,
              extraTasksOffset |-> 0, i |-> 0]
        ELSE [nbTasks |-> nbT, nbIterationsPerCpus |-> per, extraTasks |-> n - nbT * per,
              extraTasksOffset |-> 0, i |-> 0]

\* a slip in the partition: the slices do not skip the remainders given out
chunkStart_NoOffset == loc.i * loc.nbIterationsPerCpus

\* a slip in the partition: the remainder is given to no slice
chunkEnd_NoExtra == loc.i * loc.nbIterationsPerCpus + loc.extraTasksOffset
                        + loc.nbIterationsPerCpus

\* the slice level[_start:_end] of iteration loc.i of the push loop
chunkStart == loc.i * loc.nbIterationsPerCpus + loc.extraTasksOffset
chunkEnd == chunkStart + loc.nbIterationsPerCpus + (IF loc.extraTasks > 0 THEN 1 ELSE 0)

\* slips in the barrier: no wait, no look at the error channel, the last error
wgWait_NoBarrier == TRUE
levelFailed_Ignored == FALSE
recvError_Last == chError[Len(chError)]

\* wg.Wait() returns
wgWait == wg = 0
\* len(chError) > 0
levelFailed == Len(chError) > 0
\* <-chError
recvError == Head(chError)

\* the loop over solver.Levels has ended
CallerLevelsDone ==
    /\ Running /\ tpc[0] = "level" /\ lvl > Len(cs.Levels)
    /\ tpc' = [tpc EXCEPT ![0] = "final"]
    /\ UNCHANGED <<aside, inputs, store, abc, tchunk, tidx, tpend, terr, lvl, loc, result,
                   channels, panicked, started, finished, failed, errLog, setCount, chunks,
                   hintCalls>>

\* a level executed in the calling thread
CallerLevelSeq ==
    /\ Running /\ tpc[0] = "level" /\ lvl <= Len(cs.Levels)
    /\ isSequential(Len(cs.Levels[lvl]))
    /\ IF Len(cs.Levels[lvl]) = 0
       THEN /\ lvl' = lvl + 1
            /\ UNCHANGED <<tpc, tchunk, tidx>>
       ELSE /\ tpc' = [tpc EXCEPT ![0] = "proc"]
            /\ tchunk' = [tchunk EXCEPT ![0] = <<lvl, 0, Len(cs.Levels[lvl])>>]
            /\ tidx' = [tidx EXCEPT ![0] = 0]
            /\ lvl' = lvl
    /\ UNCHANGED <<aside, inputs, store, abc, tpend, terr, loc, result, channels, panicked,
                   started, finished, failed, errLog, setCount, chunks,
                   hintCalls>>

\* a level split into slices for the workers
CallerLevelPar ==
    /\ Running /\ tpc[0] = "level" /\ lvl <= Len(cs.Levels)
    /\ ~isSequential(Len(cs.Levels[lvl]))
    /\ loc' = levelTasks(Len(cs.Levels[lvl]))
    /\ tpc' = [tpc EXCEPT ![0] = "push"]
    /\ chunks' = <<>>
    /\ UNCHANGED <<aside, inputs, store, abc, tchunk, tidx, tpend, terr, lvl, result, channels,
                   panicked, started, finished, failed, errLog, setCount, hintCalls>>

\* one iteration of the push loop: wg.Add(1); chTasks <- level[_start:_end]
CallerPush ==
    /\ Running /\ tpc[0] = "push"
    /\ Len(chTasks) < nbTasks
    /\ wg' = wg + 1
    /\ chTasks' = Append(chTasks, <<lvl, chunkStart, chunkEnd>>)
    /\ chunks' = Append(chunks, <<lvl, chunkStart, chunkEnd>>)
    /\ loc' = [loc EXCEPT !.i = @ + 1,
                          !.extraTasks = IF @ > 0 THEN @ - 1 ELSE @,
                          !.extraTasksOffset = IF loc.extraTasks > 0 THEN @ + 1 ELSE @]
    /\ tpc' = [tpc EXCEPT ![0] = IF loc.i + 1 < loc.nbTasks THEN "push" ELSE "wait"]
    /\ UNCHANGED <<aside, inputs, store, abc, tchunk, tidx, tpend, terr, lvl, result, chError,
                   closed, panicked, started, finished, failed, errLog, setCount, hintCalls>>

\* wg.Wait()
CallerWait ==
    /\ Running /\ tpc[0] = "wait"
    /\ wgWait
    /\ tpc' = [tpc EXCEPT ![0] = "check"]
    /\ UNCHANGED <<aside, inputs, store, abc, tchunk, tidx, tpend, terr, lvl, loc, result,
                   channels, panicked, started, finished, failed, errLog, setCount, chunks,
                   hintCalls>>

\* if len(chError) > 0 { return <-chError }, with the deferred closes
CallerCheck ==
    /\ Running /\ tpc[0] = "check"
    /\ IF levelFailed
       THEN /\ result' = recvError
            /\ chError' = Tail(chError)
            /\ closed' = TRUE
            /\ tpc' = [tpc EXCEPT ![0] = "returned"]
            /\ lvl' = lvl
       ELSE /\ lvl' = lvl + 1
            /\ tpc' = [tpc EXCEPT ![0] = "level"]
            /\ UNCHANGED <<result, chError, closed>>
    /\ UNCHANGED <<aside, inputs, store, abc, tchunk, tidx, tpend, terr, loc, chTasks, wg,
                   panicked, started, finished, failed, errLog, setCount, chunks,
                   hintCalls>>

\* the completeness check after the last level, with the deferred closes
CallerFinal ==
    /\ Running /\ tpc[0] = "final"
    /\ result' = IF nbSolved # Cardinality(DOMAIN values) THEN ErrIncomplete ELSE NoErr
    /\ closed' = TRUE
    /\ tpc' = [tpc EXCEPT ![0] = "returned"]
    /\ UNCHANGED <<aside, inputs, store, abc, tchunk, tidx, tpend, terr, lvl, loc, chTasks,
                   chError, wg, panicked, started, finished, failed, errLog, setCount,
                   chunks, hintCalls>>

(***************************************************************************)
(* processInstruction as run by a thread: the caller in a sequential       *)
(* level, a worker on its slice.  The routine the instruction dispatches   *)
(* to runs up to its first call of set in one step; set is four steps      *)
(* (the test of solved[id], the two writes and the atomic increment),      *)
(* since the workers share the value store.                                *)
(***************************************************************************)
\* a slip in the worker loop: a slice is abandoned once any error was sent
moreWork_Cancel(t) == tidx[t] + 1 < tchunk[t][3] /\ chError = <<>>

\* a slip in set: no test of the solved flag
alreadySolved_Never(id) == FALSE

\* for _, i := range t: the slice holds a further instruction
moreWork(t) == tidx[t] + 1 < tchunk[t][3]

\* if s.solved[id]
alreadySolved(id) == solved[id]

\* atomic.AddUint64(&s.nbSolved, 1)
AddUint64(n) == n + 1

\* processInstruction returned err to the loop of thread t
Return(t, err) ==
    /\ finished' = finished \cup {CurInstr(t)}
    /\ failed' = IF err # NoErr THEN failed \cup {CurInstr(t)} ELSE failed
    /\ terr' = [terr EXCEPT ![t] = err]
    /\ IF t = 0
       THEN IF err # NoErr
            THEN /\ result' = err
                 /\ closed' = TRUE
                 /\ tpc' = [tpc EXCEPT ![t] = "returned"]
                 /\ UNCHANGED <<tidx, lvl>>
            ELSE IF moreWork(t)
            THEN /\ tidx' = [tidx EXCEPT ![t] = @ + 1]
                 /\ tpc' = [tpc EXCEPT ![t] = "proc"]
                 /\ UNCHANGED <<result, closed, lvl>>
            ELSE /\ lvl' = lvl + 1
                 /\ tpc' = [tpc EXCEPT ![t] = "level"]
                 /\ UNCHANGED <<result, closed, tidx>>
       ELSE /\ UNCHANGED <<result, closed, lvl>>
            /\ IF err # NoErr
               THEN /\ tpc' = [tpc EXCEPT ![t] = "sendErr"]
                    /\ tidx' = tidx
               ELSE IF moreWork(t)
               THEN /\ tidx' = [tidx EXCEPT ![t] = @ + 1]
                    /\ tpc' = [tpc EXCEPT ![t] = "proc"]
               ELSE /\ tpc' = [tpc EXCEPT ![t] = "done"]
                    /\ tidx' = tidx

\* processInstruction(solver.Instructions[i], &scratch) up to the first set
Proc(t) ==
    /\ Running /\ tpc[t] = "proc"
    /\ \E o \in {processInstruction(Cur, cs, cs.Instructions[CurInstr(t)])} :
        /\ started' = started \cup {CurInstr(t)}
        /\ hintCalls' = hintCalls \o o.calls
        /\ a' = o.a
        /\ b' = o.b
        /\ c' = o.c
        /\ IF o.panic # ""
           THEN /\ panicked' = [msg |-> o.panic, by |-> t]
                /\ UNCHANGED <<tpc, tidx, tpend, terr, lvl, result, closed, finished, failed>>
           ELSE IF o.sets = <<>>
           THEN /\ Return(t, o.err)
                /\ UNCHANGED <<panicked, tpend>>
           ELSE /\ tpend' = [tpend EXCEPT ![t] = o.sets]
                /\ terr' = [terr EXCEPT ![t] = o.err]
                /\ tpc' = [tpc EXCEPT ![t] = "setCheck"]
                /\ UNCHANGED <<panicked, tidx, lvl, result, closed, finished, failed>>
    /\ UNCHANGED <<aside, inputs, store, tchunk, loc, chTasks, chError, wg, errLog, setCount,
                   chunks>>

\* set: if s.solved[id] { panic(...) }
SetCheck(t) ==
    /\ Running /\ tpc[t] = "setCheck"
    /\ IF alreadySolved(Head(tpend[t])[1])
       THEN /\ panicked' = [msg |-> PanicSameWire, by |-> t]
            /\ tpc' = tpc
       ELSE /\ tpc' = [tpc EXCEPT ![t] = "setValue"]
            /\ panicked' = panicked
    /\ UNCHANGED <<aside, inputs, store, abc, tchunk, tidx, tpend, terr, lvl, loc, result,
                   channels, started, finished, failed, errLog, setCount, chunks,
                   hintCalls>>

\* set: s.values[id] = value
SetValue(t) ==
    /\ Running /\ tpc[t] = "setValue"
    /\ values' = [values EXCEPT ![Head(tpend[t])[1]] = Head(tpend[t])[2]]
    /\ tpc' = [tpc EXCEPT ![t] = "setSolved"]
    /\ UNCHANGED <<aside, inputs, solved, nbSolved, abc, tchunk, tidx, tpend, terr, lvl, loc,
                   result, channels, panicked, started, finished, failed, errLog,
                   setCount, chunks,
                   hintCalls>>

\* set: s.solved[id] = true
SetSolved(t) ==
    /\ Running /\ tpc[t] = "setSolved"
    /\ solved' = [solved EXCEPT ![Head(tpend[t])[1]] = TRUE]
    /\ tpc' = [tpc EXCEPT ![t] = "setAdd"]
    /\ UNCHANGED <<aside, inputs, values, nbSolved, abc, tchunk, tidx, tpend, terr, lvl, loc,
                   result, channels, panicked, started, finished, failed, errLog,
                   setCount, chunks,
                   hintCalls>>

\* set: atomic.AddUint64(&s.nbSolved, 1), and the return of set
SetAdd(t) ==
    /\ Running /\ tpc[t] = "setAdd"
    /\ nbSolved' = AddUint64(nbSolved)
    /\ setCount' = [setCount EXCEPT ![Head(tpend[t])[1]] = @ + 1]
    /\ tpend' = [tpend EXCEPT ![t] = Tail(@)]
    /\ IF Tail(tpend[t]) # <<>>
       THEN /\ tpc' = [tpc EXCEPT ![t] = "setCheck"]
            /\ UNCHANGED <<tidx, terr, lvl, result, closed, finished, failed>>
       ELSE Return(t, terr[t])
    /\ UNCHANGED <<aside, inputs, values, solved, abc, tchunk, loc, chTasks, chError, wg,
                   panicked, started, errLog, chunks, hintCalls>>

(***************************************************************************)
(* The goroutines of the worker pool.                                      *)
(***************************************************************************)
\* for t := range chTasks: a slice is received
WorkerRecv(w) ==
    /\ Running /\ tpc[w] = "recv"
    /\ chTasks # <<>>
    /\ chTasks' = Tail(chTasks)
    /\ tchunk' = [tchunk EXCEPT ![w] = Head(chTasks)]
    /\ IF Head(chTasks)[2] < Head(chTasks)[3]
       THEN /\ tidx' = [tidx EXCEPT ![w] = Head(chTasks)[2]]
            /\ tpc' = [tpc EXCEPT ![w] = "proc"]
       ELSE /\ tidx' = tidx
            /\ tpc' = [tpc EXCEPT ![w] = "done"]
    /\ UNCHANGED <<aside, inputs, store, abc, tpend, terr, lvl, loc, result, chError, closed, wg,
                   panicked, started, finished, failed, errLog, setCount, chunks,
                   hintCalls>>

\* a slip in the clean-up: the task queue is never seen closed
rangeEnds_Never == FALSE
\* for t := range chTasks ends: the channel is closed and empty
rangeEnds == chTasks = <<>> /\ closed

\* a slip in the error path of a worker: it returns without wg.Done()
wgDone_Skip(n) == n
\* wg.Done()
wgDone(n) == n - 1

\* for t := range chTasks: the channel is closed and empty
WorkerExit(w) ==
    /\ Running /\ tpc[w] = "recv"
    /\ rangeEnds
    /\ tpc' = [tpc EXCEPT ![w] = "exited"]
    /\ UNCHANGED <<aside, inputs, store, abc, tchunk, tidx, tpend, terr, lvl, loc, result,
                   channels, panicked, started, finished, failed, errLog, setCount, chunks,
                   hintCalls>>

\* chError <- err
WorkerSendErr(w) ==
    /\ Running /\ tpc[w] = "sendErr"
    /\ Len(chError) < nbTasks /\ ~closed
    /\ chError' = Append(chError, terr[w])
    /\ errLog' = Append(errLog, terr[w])
    /\ tpc' = [tpc EXCEPT ![w] = "errDone"]
    /\ UNCHANGED <<aside, inputs, store, abc, tchunk, tidx, tpend, terr, lvl, loc, result,
                   chTasks, closed, wg, panicked, started, finished, failed, setCount,
                   chunks, hintCalls>>

\* wg.Done(); return, after an error
WorkerErrDone(w) ==
    /\ Running /\ tpc[w] = "errDone"
    /\ wg' = wgDone(wg)
    /\ tpc' = [tpc EXCEPT ![w] = "exited"]
    /\ UNCHANGED <<aside, inputs, store, abc, tchunk, tidx, tpend, terr, lvl, loc, result,
                   chTasks, chError, closed, panicked, started, finished, failed, errLog,
                   setCount, chunks,
                   hintCalls>>

\* wg.Done() at the end of a slice
WorkerDone(w) ==
    /\ Running /\ tpc[w] = "done"
    /\ wg' = wgDone(wg)
    /\ tpc' = [tpc EXCEPT ![w] = "recv"]
    /\ UNCHANGED <<aside, inputs, store, abc, tchunk, tidx, tpend, terr, lvl, loc, result,
                   chTasks, chError, closed, panicked, started, finished, failed, errLog,
                   setCount, chunks,
                   hintCalls>>

Next ==
    \/ CallerLevelsDone
    \/ CallerLevelSeq
    \/ CallerLevelPar
    \/ CallerPush
    \/ CallerWait
    \/ CallerCheck
    \/ CallerFinal
    \/ \E t \in Threads : Proc(t)
    \/ \E t \in Threads : SetCheck(t)
    \/ \E t \in Threads : SetValue(t)
    \/ \E t \in Threads : SetSolved(t)
    \/ \E t \in Threads : SetAdd(t)
    \/ \E w \in Workers : WorkerRecv(w)
    \/ \E w \in Workers : WorkerExit(w)
    \/ \E w \in Workers : WorkerSendErr(w)
    \/ \E w \in Workers : WorkerErrDone(w)
    \/ \E w \in Workers : WorkerDone(w)

Spec == Init /\ [][Next]_vars

\* run under a scheduler that runs a goroutine that can run: some step is
\* taken as long as one is possible.  The inputs are those of Init with the
\* witness values that tell the executions apart: in par, x = 0 fails both
\* slices, x = 1 none and x = 2 one; in dup every x gives the same steps;
\* the two levels of twopar hold two slices each, for up to two workers.
LiveInputs(s) == IF s = "dup" THEN {0} ELSE 0..2
LiveTasks(s) == IF s = "twopar" THEN 1..2 ELSE 1..MaxNbTasks
InitLive ==
    /\ scn \in ScnNames
    /\ system = Systems[scn]
    /\ nbTasks \in LiveTasks(scn)
    /\ wit \in [1..ExpectedWitnessSize(system) -> LiveInputs(scn)]
    /\ Built
    /\ Idle
SpecLive == InitLive /\ [][Next]_vars /\ WF_vars(Next)

(***************************************************************************)
(* The solve of a one-instruction system with a single worker, which is    *)
(* never given a slice: newSolver on a witness of the expected length, one *)
(* element short or one element long, then run, every level in the         *)
(* calling thread.                                                         *)
(***************************************************************************)
Witnesses(sys) ==
    LET full == [1..ExpectedWitnessSize(sys) -> Fr] IN
    full \cup {SubSeq(w, 1, Len(w) - 1) : w \in {w \in full : Len(w) > 0}}
         \cup {Append(w, 0) : w \in full}

InitSeq ==
    /\ scn = "unit"
    /\ system \in UnitSystems
    /\ nbTasks = 1
    /\ wit \in Witnesses(system)
    /\ IF newSolverErr(system, wit) = NoErr THEN Built ELSE NoSolver
    /\ Idle

NextSeq ==
    \/ CallerLevelsDone
    \/ CallerLevelSeq
    \/ CallerFinal
    \/ Proc(0)
    \/ SetCheck(0)
    \/ SetValue(0)
    \/ SetSolved(0)
    \/ SetAdd(0)
    \/ \E w \in Workers : WorkerExit(w)

SpecSeq == InitSeq /\ [][NextSeq]_vars

(***************************************************************************)
(* The producer side of run on one level: the choice between the calling   *)
(* thread and the worker pool, and the push loop.  The task channel has    *)
(* room for every slice of a level, so the loop runs to its end whatever   *)
(* the workers do.                                                         *)
(***************************************************************************)
InitPush ==
    /\ scn = "level"
    /\ system \in {FillerSystem(n) : n \in 0..MaxLevelLen}
    /\ nbTasks \in 1..MaxWorkers
    /\ wit = <<>>
    /\ Built
    /\ Idle

NextPush ==
    \/ CallerLevelSeq
    \/ CallerLevelPar
    \/ CallerPush

SpecPush == InitPush /\ [][NextPush]_vars

(***************************************************************************)
(* The routines computeTerm, accumulateInto and logValue called on their   *)
(* own over a value store.  The store has the wires ONE, x and y; x and y  *)
(* are each unsolved (and zero) or solved with any value.                  *)
(***************************************************************************)
EvalSystem == System(1, 0, 2, 0, <<>>, <<>>, {})

\* a term over ONE, x or y, or a constant (marked by a wire id below zero)
Terms == {T(cid, vid) : cid \in DOMAIN Coefficients, vid \in -1..2}

LogExps ==
    { <<>>,
      <<T(CoeffIdOne, 1)>>,                        \* x
      <<T(CoeffIdOne, 1), T(4, -1)>>,              \* x + 3
      <<T(CoeffIdZero, 2)>>,                       \* 0 * y
      <<T(CoeffIdMinusOne, 2), T(CoeffIdTwo, 1)>>, \* -y + 2 * x
      <<T(CoeffIdTwo, -1), T(4, 2), One>> }        \* 2 + 3 * y + 1

Logs ==
    { [Format |-> "%s", ToResolve |-> e, Stack |-> st] :
        e \in {<<l>> : l \in LogExps} \cup (LogExps \X LogExps),
        st \in {<<>>, <<1>>, <<2, 1>>} }

\* what the routines called on their own leave alone
runState == <<abc, tpc, tchunk, tidx, tpend, terr, lvl, loc, result, channels, started,
              finished, failed, errLog, setCount, chunks, hintCalls, hreach, hstack>>

InitEval ==
    /\ scn = "eval"
    /\ system = EvalSystem
    /\ nbTasks = 1
    /\ wit = <<>>
    /\ solved \in {f \in [0..2 -> BOOLEAN] : f[0]}
    /\ values \in {v \in [0..2 -> Fr] : v[0] = 1 /\ \A w \in 1..2 : ~solved[w] => v[w] = 0}
    /\ nbSolved = Cardinality({w \in 0..2 : solved[w]})
    /\ a = <<>> /\ b = <<>> /\ c = <<>>
    /\ tpc = [t \in 0..nbTasks |-> "idle"]
    /\ result = NoErr
    /\ hreach = [t \in 0..nbTasks |-> <<>>]
    /\ Idle

\* routine fn, called with args, returns or panics as out tells
Apply(fn, args, out) ==
    /\ Running /\ call = NoCall
    /\ call' = [fn |-> fn, args |-> args]
    /\ ret' = out
    /\ panicked' = IF out.panic # "" THEN [msg |-> out.panic, by |-> 0] ELSE panicked
    /\ UNCHANGED <<inputs, store, runState>>

CallComputeTerm == \E t \in Terms : Apply("computeTerm", <<t>>, computeTerm(Cur, t))

CallSolutionComputeTerm ==
    \E t \in {t \in Terms : ~IsConstant(t)} :
        Apply("solution.computeTerm", <<t>>, solution_computeTerm(Cur, t))

CallAccumulateInto ==
    \E t \in Terms, r \in Fr :
        Apply("accumulateInto", <<t, r>>, [panic |-> "", res |-> accumulateInto(Cur, t, r)])

CallLogValue == \E log \in Logs : Apply("logValue", <<log>>, logValue(Cur, log))

NextEval ==
    \/ CallComputeTerm
    \/ CallSolutionComputeTerm
    \/ CallAccumulateInto
    \/ CallLogValue

SpecEval == InitEval /\ [][NextEval]_vars

(***************************************************************************)
(* solution.solveWithHint (bn254), which resolves the hints its inputs     *)
(* depend on by calling itself.  The wires are ONE, x (given by the        *)
(* witness), the outputs 2 and 3 of hint A, the output 4 of hint B, the    *)
(* output 5 of hint C and the wire 6, which no hint and no witness gives.  *)
(* A takes x + 1, B takes the two outputs of A, and C takes                *)
(*   fan    the second output of A, plus x                                 *)
(*   chain  the output of B, negated                                       *)
(*   bad    the first output of A and 0 * (wire 6)                         *)
(* The function of A is function 1, function 2 (which returns an error) or *)
(* function 3 (which is not registered).                                   *)
(***************************************************************************)
\* constraint.Hint: ID, Inputs, Wires
SolHint(id, ins, wires) == [ID |-> id, Inputs |-> ins, Wires |-> wires]

\* a malformed system: the first hint is over the output of the last one
HintA_Cyclic(id) == SolHint(id, <<(<<T(CoeffIdOne, 5), One>>)>>, <<2, 3>>)
HintA(id) == SolHint(id, <<(<<T(CoeffIdOne, 1), One>>)>>, <<2, 3>>)
HintB == SolHint(1, <<(<<T(CoeffIdOne, 2)>>), (<<T(4, 3), T(CoeffIdTwo, -1)>>)>>, <<4>>)
HintC(kind) ==
    SolHint(1,
            CASE kind = "fan" -> <<(<<T(CoeffIdOne, 3), T(CoeffIdOne, 1)>>)>>
              [] kind = "chain" -> <<(<<T(CoeffIdMinusOne, 4)>>)>>
              [] OTHER -> <<(<<T(CoeffIdOne, 2), T(CoeffIdZero, 6)>>)>>,
            <<5>>)

\* the fields of R1CS and solution that solveWithHint reads; mHints maps the
\* id of a wire to the hint it is an output of
SolSystem(id, kind) ==
    [Type |-> "R1CS", nbPublic |-> 2, nbSecret |-> 0, NbInternalVariables |-> 5,
     mHintsFunctions |-> {1, 2},
     mHints |-> [w \in 2..5 |-> CASE w \in {2, 3} -> HintA(id)
                                  [] w = 4 -> HintB
                                  [] OTHER -> HintC(kind)]]

SolSystems == {SolSystem(id, kind) : id \in 1..3, kind \in {"fan", "chain", "bad"}}

\* newSolution: nothing is solved
newSolution(nbWires) ==
    [values |-> [w \in 0..(nbWires - 1) |-> 0], solved |-> [w \in 0..(nbWires - 1) |-> FALSE],
     nbSolved |-> 0]

\* the orders in which one thread reaches hint outputs: up to three of them
Orders ==
    {<<w>> : w \in 2..5}
        \cup {o \in (2..5) \X (2..5) : o[1] # o[2]}
        \cup {o \in (2..5) \X (2..5) \X (2..5) : o[1] # o[2] /\ o[1] # o[3] /\ o[2] # o[3]}

\* one thread reaches hint outputs in some order, or two threads reach the
\* outputs of the distinct hints B and C at the same time
InitHints ==
    /\ scn = "hints"
    /\ system \in SolSystems
    /\ nbTasks \in 1..2
    /\ wit \in [1..1 -> Fr]
    /\ LET S == setAll(newSolution(NbWires(system)), <<(<<0, 1>>), (<<1, wit[1]>>)>>).S IN
        /\ values = S.values
        /\ solved = S.solved
        /\ nbSolved = S.nbSolved
    /\ a = <<>> /\ b = <<>> /\ c = <<>>
    /\ tpc = [t \in 0..nbTasks |-> IF t = 0 THEN "idle" ELSE "reach"]
    /\ result = NoErr
    /\ IF nbTasks = 1
       THEN hreach \in {[t \in 0..1 |-> IF t = 0 THEN <<>> ELSE o] : o \in Orders}
       ELSE hreach = [t \in 0..2 |-> CASE t = 1 -> <<4>> [] t = 2 -> <<5>> [] OTHER -> <<>>]
    /\ Idle

PanicHintInput == "solver can't compute hint; one or more input wires are unsolved"

\* a frame of solveWithHint(vID, h): the input i and the term j of it that the
\* loop is at, the accumulator v and the inputs evaluated so far
Frame(vID) == [vID |-> vID, h |-> cs.mHints[vID], i |-> 1, j |-> 1, v |-> 0, inputs |-> <<>>]
Top(t) == Head(hstack[t])
TopTerm(t) == Top(t).h.Inputs[Top(t).i][Top(t).j]

\* a slip in recursiveSolve: no term is taken to depend on an unsolved wire
unsolvedDependency_Never(t) == FALSE

\* recursiveSolve: the term is over a wire and the wire is not solved
unsolvedDependency(t) == ~IsConstant(t) /\ ~solved[t.VID]

\* what solveWithHint leaves alone
solOut == <<inputs, abc, tchunk, tidx, lvl, loc, result, channels, started, finished,
            failed, errLog, chunks, call, ret>>

\* the constraint a thread solves reaches the hint output wire vID:
\* solveWithHint(vID, mHints[vID]) is called
SolutionReach(t) ==
    /\ Running /\ tpc[t] = "reach"
    /\ IF hreach[t] = <<>>
       THEN /\ tpc' = [tpc EXCEPT ![t] = "exited"]
            /\ UNCHANGED <<hreach, hstack>>
       ELSE /\ hstack' = [hstack EXCEPT ![t] = <<Frame(Head(hreach[t]))>>]
            /\ hreach' = [hreach EXCEPT ![t] = Tail(@)]
            /\ tpc' = [tpc EXCEPT ![t] = "hEnter"]
    /\ UNCHANGED <<solOut, store, tpend, terr, panicked, setCount, hintCalls>>

\* if s.solved[vID] { return nil }; f, ok := s.mHintsFunctions[h.ID]
SolutionEnter(t) ==
    /\ Running /\ tpc[t] = "hEnter"
    /\ IF solved[Top(t).vID]
       THEN /\ terr' = [terr EXCEPT ![t] = NoErr]
            /\ tpc' = [tpc EXCEPT ![t] = "hRet"]
       ELSE IF Top(t).h.ID \notin cs.mHintsFunctions
       THEN /\ terr' = [terr EXCEPT ![t] = ErrMissingHint]
            /\ tpc' = [tpc EXCEPT ![t] = "hRet"]
       ELSE /\ tpc' = [tpc EXCEPT ![t] = "hTerm"]
            /\ terr' = terr
    /\ UNCHANGED <<solOut, store, tpend, panicked, setCount, hintCalls, hreach, hstack>>

\* one step of the loops over h.Inputs and the terms of an input, with
\* recursiveSolve(term)
SolutionTerm(t) ==
    /\ Running /\ tpc[t] = "hTerm"
    /\ LET f == Top(t) IN
       IF f.i > Len(f.h.Inputs)
       THEN /\ tpc' = [tpc EXCEPT ![t] = "hCall"]
            /\ UNCHANGED <<hstack, panicked>>
       ELSE IF f.j > Len(f.h.Inputs[f.i])
       THEN /\ hstack' = [hstack EXCEPT ![t] =
                    <<[f EXCEPT !.inputs = Append(@, f.v), !.i = @ + 1, !.j = 1, !.v = 0]>>
                        \o Tail(@)]
            /\ UNCHANGED <<tpc, panicked>>
       ELSE IF ~unsolvedDependency(TopTerm(t))
       THEN /\ hstack' = [hstack EXCEPT ![t] =
                    <<[f EXCEPT !.v = accumulateInto(Cur, TopTerm(t), @), !.j = @ + 1]>>
                        \o Tail(@)]
            /\ UNCHANGED <<tpc, panicked>>
       ELSE IF TopTerm(t).VID \in DOMAIN cs.mHints
       THEN /\ hstack' = [hstack EXCEPT ![t] = <<Frame(TopTerm(t).VID)>> \o @]
            /\ tpc' = [tpc EXCEPT ![t] = "hEnter"]
            /\ UNCHANGED panicked
       ELSE /\ panicked' = [msg |-> PanicHintInput, by |-> t]
            /\ UNCHANGED <<tpc, hstack>>
    /\ UNCHANGED <<solOut, store, tpend, terr, setCount, hintCalls, hreach>>

\* recursiveSolve(term) returned nil: s.accumulateInto(term, &v)
SolutionAccumulate(t) ==
    /\ Running /\ tpc[t] = "hAcc"
    /\ hstack' = [hstack EXCEPT ![t] =
            <<[Top(t) EXCEPT !.v = accumulateInto(Cur, TopTerm(t), @), !.j = @ + 1]>>
                \o Tail(@)]
    /\ tpc' = [tpc EXCEPT ![t] = "hTerm"]
    /\ UNCHANGED <<solOut, store, tpend, terr, panicked, setCount, hintCalls, hreach>>

\* err := f(q, inputs, outputs)
SolutionCall(t) ==
    /\ Running /\ tpc[t] = "hCall"
    /\ LET h == Top(t).h
           f == HintFn(h.ID, Top(t).inputs, Len(h.Wires))
       IN  /\ hintCalls' = Append(hintCalls, <<h.ID, Top(t).inputs, h.Wires>>)
           /\ tpend' = [tpend EXCEPT ![t] =
                    [k \in 1..Len(h.Wires) |-> <<h.Wires[k], SetBigInt(f.outputs[k])>>]]
           /\ terr' = [terr EXCEPT ![t] = f.err]
           /\ tpc' = [tpc EXCEPT ![t] = IF h.Wires = <<>> THEN "hRet" ELSE "hSetCheck"]
    /\ UNCHANGED <<solOut, store, panicked, setCount, hreach, hstack>>

\* solution.set, one memory access at a time
SolutionSet(t) ==
    /\ Running /\ tpc[t] \in {"hSetCheck", "hSetValue", "hSetSolved", "hSetAdd"}
    /\ LET id == Head(tpend[t])[1]
           value == Head(tpend[t])[2]
       IN  CASE tpc[t] = "hSetCheck" ->
                 /\ IF solved[id]
                    THEN panicked' = [msg |-> PanicSameWire, by |-> t] /\ tpc' = tpc
                    ELSE tpc' = [tpc EXCEPT ![t] = "hSetValue"] /\ panicked' = panicked
                 /\ UNCHANGED <<store, tpend, setCount>>
             [] tpc[t] = "hSetValue" ->
                 /\ values' = [values EXCEPT ![id] = value]
                 /\ tpc' = [tpc EXCEPT ![t] = "hSetSolved"]
                 /\ UNCHANGED <<solved, nbSolved, tpend, setCount, panicked>>
             [] tpc[t] = "hSetSolved" ->
                 /\ solved' = [solved EXCEPT ![id] = TRUE]
                 /\ tpc' = [tpc EXCEPT ![t] = "hSetAdd"]
                 /\ UNCHANGED <<values, nbSolved, tpend, setCount, panicked>>
             [] OTHER ->
                 /\ nbSolved' = AddUint64(nbSolved)
                 /\ setCount' = [setCount EXCEPT ![id] = @ + 1]
                 /\ tpend' = [tpend EXCEPT ![t] = Tail(@)]
                 /\ tpc' = [tpc EXCEPT ![t] =
                                IF Tail(tpend[t]) # <<>> THEN "hSetCheck" ELSE "hRet"]
                 /\ UNCHANGED <<values, solved, panicked>>
    /\ UNCHANGED <<solOut, terr, hintCalls, hreach, hstack>>

\* solveWithHint returns terr[t]: to the thread's constraint, or to the
\* recursiveSolve of the frame below, which returns an error as it is
SolutionReturn(t) ==
    /\ Running /\ tpc[t] = "hRet"
    /\ hstack' = [hstack EXCEPT ![t] = Tail(@)]
    /\ tpc' = [tpc EXCEPT ![t] =
            IF Tail(hstack[t]) = <<>> THEN (IF terr[t] = NoErr THEN "reach" ELSE "failed")
            ELSE IF terr[t] = NoErr THEN "hAcc" ELSE "hRet"]
    /\ UNCHANGED <<solOut, store, tpend, terr, panicked, setCount, hintCalls, hreach>>

NextHints ==
    \/ \E t \in Workers : SolutionReach(t)
    \/ \E t \in Workers : SolutionEnter(t)
    \/ \E t \in Workers : SolutionTerm(t)
    \/ \E t \in Workers : SolutionAccumulate(t)
    \/ \E t \in Workers : SolutionCall(t)
    \/ \E t \in Workers : SolutionSet(t)
    \/ \E t \in Workers : SolutionReturn(t)

SpecHints == InitHints /\ [][NextHints]_vars

\* the same, with threads that take a step as long as one is possible
SpecHintsLive == InitHints /\ [][NextHints]_vars /\ WF_vars(NextHints)

(***************************************************************************)
(* Vocabulary of the properties.                                           *)
(***************************************************************************)
Returned == tpc[0] = "returned"

Range(f) == {f[x] : x \in DOMAIN f}
LevelInstrs(sys, k) == Range(sys.Levels[k])
\* the level an instruction belongs to
LevelOf(i) == CHOOSE k \in 1..Len(cs.Levels) : i \in LevelInstrs(cs, k)

\* the instructions of a pushed slice <<level, _start, _end>>
ChunkPositions(ch) == ch[2]..(ch[3] - 1)

\* the wires an instruction refers to, and the value of a linear expression
\* as the sum of coefficient * value over its terms
TermWires(l) == {l[j].VID : j \in {j \in DOMAIN l : ~IsConstant(l[j])}}
Touched(inst) ==
    IF inst.kind = "R1C" THEN TermWires(inst.L) \cup TermWires(inst.R) \cup TermWires(inst.O)
    ELSE IF inst.kind = "Hint"
    THEN UNION {TermWires(inst.Inputs[j]) : j \in DOMAIN inst.Inputs}
    ELSE {}
RECURSIVE EvalLE(_)
EvalLE(l) ==
    IF l = <<>> THEN 0
    ELSE (Coefficients[Head(l).CID]
            * (IF IsConstant(Head(l)) THEN 1 ELSE values[Head(l).VID])
          + EvalLE(Tail(l))) % q

\* the value of a linear expression over the values V
RECURSIVE EvalOver(_, _)
EvalOver(V, l) ==
    IF l = <<>> THEN 0
    ELSE (Coefficients[Head(l).CID] * (IF IsConstant(Head(l)) THEN 1 ELSE V[Head(l).VID])
          + EvalOver(V, Tail(l))) % q

\* thread t takes the step
Moves(t) == tpc'[t] # tpc[t] \/ (panicked = NoPanic /\ panicked'.by = t)

(***************************************************************************)
(* Mutual independence of the instructions of every level: no instruction  *)
(* of a level assigns a wire that another instruction of the level reads   *)
(* or assigns.  The wires an instruction assigns are the output range of a *)
(* hint and the wires of a constraint that no earlier level assigns.       *)
(***************************************************************************)
InputWires(sys) == 0..(WitnessOffset(sys) + ExpectedWitnessSize(sys) - 1)
Outputs(inst, known) ==
    IF inst.kind = "Hint" THEN inst.Start..(inst.End - 1) ELSE Touched(inst) \ known

RECURSIVE IndependentFrom(_, _, _)
IndependentFrom(sys, k, known) ==
    IF k > Len(sys.Levels) THEN TRUE
    ELSE LET ins == LevelInstrs(sys, k)
             out(i) == Outputs(sys.Instructions[i], known)
         IN  /\ \A i \in ins : \A j \in ins \ {i} :
                    out(i) \cap (Touched(sys.Instructions[j]) \cup out(j)) = {}
             /\ IndependentFrom(sys, k + 1, known \cup UNION {out(i) : i \in ins})

IndependentLevels == [s \in ScnNames |-> IndependentFrom(Systems[s], 1, InputWires(Systems[s]))]

\* the sequential run of the same system on the same witness
Ref == seqRun(cs, wit)

(***************************************************************************)
(* Properties.                                                             *)
(***************************************************************************)

\* C1: if run returns nil then every wire is solved, and every constraint
\* that solveR1C processed satisfies a[cID] * b[cID] == c[cID].
C1_Completeness ==
    (Returned /\ result = NoErr) =>
        /\ \A w \in Wires : solved[w]
        /\ \A i \in finished :
              cs.Instructions[i].kind = "R1C" =>
                  Mul(a[cs.Instructions[i].cID], b[cs.Instructions[i].cID])
                      = c[cs.Instructions[i].cID]

\* C2: strict level barrier: when an instruction of a level has started, every
\* instruction of every earlier level has finished without error and the
\* caller has moved past the error check of that level.
C2_LevelBarrier ==
    \A i \in started :
        /\ LevelOf(i) <= lvl
        /\ \A k \in 1..(LevelOf(i) - 1) :
              /\ LevelInstrs(cs, k) \subseteq finished
              /\ LevelInstrs(cs, k) \cap failed = {}

\* C2 witness: the sequential level that follows a parallel level has started
C2_Witness ==
    /\ scn = "par" /\ nbTasks > 1
    /\ \E i \in started : LevelOf(i) = 3

\* C3: once an instruction of a level has returned an error, no instruction of
\* a later level is processed, run can only return a non-nil error, and until
\* it has returned (or the program has aborted) a step remains possible.
C3_ErrorStopsRun ==
    /\ \A i \in failed : \A j \in started : LevelOf(j) <= LevelOf(i)
    /\ (Returned /\ failed # {}) => result # NoErr
    /\ (failed # {} /\ ~Returned /\ Running) => ENABLED Next

\* C3 witness: run has returned after a failure in a parallel level
C3_Witness ==
    /\ Returned /\ failed # {} /\ errLog # <<>>
    /\ LevelOf(CHOOSE i \in failed : TRUE) < Len(cs.Levels)

\* C4: the error run returns from a parallel level is the first one sent on
\* the error channel, and when it returns every worker has drained.
C4_FirstErrorReturned ==
    (Returned /\ errLog # <<>>) =>
        /\ result = errLog[1]
        /\ \A w \in Workers : tpc[w] \in {"recv", "exited"}
        /\ wg = 0

\* C4 witness: two workers failed in the level with different errors
C4_Witness ==
    /\ Returned /\ Len(errLog) >= 2
    /\ errLog[1] # errLog[2]

\* C5 as claimed: when run returns the error of a parallel level, every
\* instruction of every slice pushed for the level has been processed.
C5_NoInstructionSkipped ==
    (Returned /\ errLog # <<>>) =>
        \A n \in DOMAIN chunks : \A p \in ChunkPositions(chunks[n]) :
            InstrAt(chunks[n][1], p) \in finished

\* C5 as amended: when run returns the error of a parallel level, every slice
\* pushed for the level has been processed up to its end or up to its own
\* first failing instruction; no slice is cut short by another slice's error.
C5_NoCancellation ==
    (Returned /\ errLog # <<>>) =>
        \A n \in DOMAIN chunks : \A p \in ChunkPositions(chunks[n]) :
            \/ InstrAt(chunks[n][1], p) \in finished
            \/ \E p2 \in chunks[n][2]..(p - 1) : InstrAt(chunks[n][1], p2) \in failed

\* C5 witness: one slice failed and another slice was processed to its end
C5_Witness ==
    /\ Returned /\ Len(errLog) = 1 /\ Len(chunks) = 2
    /\ \E n \in DOMAIN chunks :
          /\ \A p \in ChunkPositions(chunks[n]) : InstrAt(chunks[n][1], p) \in finished
          /\ \A p \in ChunkPositions(chunks[n]) : InstrAt(chunks[n][1], p) \notin failed

\* C6 as claimed: for a system with independent levels, every run that returns
\* ends with the value vector and the success/failure outcome of the
\* sequential run, for every worker count, partition and interleaving.
C6_Determinism ==
    (Returned /\ IndependentLevels[scn]) =>
        /\ (result = NoErr) <=> (Ref.panic = "" /\ Ref.result = NoErr)
        /\ values = Ref.S.values

\* C6 as amended: for a system with independent levels, every run that returns
\* has the success/failure outcome of the sequential run, and every run that
\* succeeds ends with the value vector of the sequential run.
C6_DeterminismOnSuccess ==
    (Returned /\ IndependentLevels[scn]) =>
        /\ (result = NoErr) <=> (Ref.panic = "" /\ Ref.result = NoErr)
        /\ (result = NoErr) => values = Ref.S.values

\* C6 witness: a successful run with a parallel level
C6_Witness ==
    /\ Returned /\ result = NoErr /\ IndependentLevels[scn]
    /\ chunks # <<>>

\* C7: set on a solved wire panics and leaves values, solved and nbSolved as
\* they were; on an unsolved wire it writes the value, marks the wire solved
\* and increments nbSolved by exactly one.
C7_SetContract ==
    [][\A t \in Threads :
        LET id == Head(tpend[t])[1]
            v == Head(tpend[t])[2]
        IN  /\ (tpc[t] = "setCheck" /\ Moves(t) /\ solved[id]) =>
                    /\ panicked' = [msg |-> PanicSameWire, by |-> t]
                    /\ values' = values /\ solved' = solved /\ nbSolved' = nbSolved
            /\ (tpc[t] = "setCheck" /\ Moves(t) /\ ~solved[id]) =>
                    /\ panicked' = NoPanic
                    /\ tpc'[t] = "setValue"
            /\ (tpc[t] = "setValue" /\ Moves(t)) =>
                    /\ values' = [values EXCEPT ![id] = v]
                    /\ tpc'[t] = "setSolved"
            /\ (tpc[t] = "setSolved" /\ Moves(t)) =>
                    /\ solved' = [solved EXCEPT ![id] = TRUE]
                    /\ tpc'[t] = "setAdd"
            /\ (tpc[t] = "setAdd" /\ Moves(t)) =>
                    /\ nbSolved' = nbSolved + 1
                    /\ values' = values /\ solved' = solved
                    /\ setCount'[id] = setCount[id] + 1
       ]_vars

\* C7 witness: a set on a solved wire has panicked
C7_Witness ==
    /\ panicked.msg = PanicSameWire
    /\ solved[Head(tpend[panicked.by])[1]]

\* C8: at most one set completes on a wire, whatever the interleaving of two
\* workers whose instructions target the same wire.
C8_AtMostOneWrite == \A w \in Wires : setCount[w] <= 1

\* C9: a solved flag never goes back to false, the value of a solved wire
\* never changes, and the store changes only in set.
C9_WriteOnce ==
    [][/\ \A w \in Wires : solved[w] => (solved'[w] /\ values'[w] = values[w])
       /\ (values' # values \/ solved' # solved \/ nbSolved' # nbSolved) =>
              \E t \in Threads : tpc[t] \in {"setValue", "setSolved", "setAdd"} /\ Moves(t)
      ]_vars

\* the instruction is a constraint whose wires are all solved and whose
\* sides do not multiply out
Violated(inst) ==
    /\ inst.kind = "R1C"
    /\ \A w \in Touched(inst) : solved[w]
    /\ Mul(Add(a[inst.cID], EvalLE(inst.L)), Add(b[inst.cID], EvalLE(inst.R)))
           # Add(c[inst.cID], EvalLE(inst.O))

\* the call of solveR1C on a violated constraint returns the unsatisfied
\* constraint error of that constraint and sets nothing
UnsatDetected(t) ==
    (tpc[t] = "proc" /\ Moves(t) /\ Violated(cs.Instructions[CurInstr(t)])) =>
        /\ terr'[t] = Err("unsatisfied", cs.Instructions[CurInstr(t)].cID)
        /\ CurInstr(t) \in failed'
        /\ values' = values /\ solved' = solved /\ nbSolved' = nbSolved
        /\ panicked' = NoPanic

\* C10 as claimed: solveR1C on a violated constraint returns the unsatisfied
\* constraint error with its index and sets nothing, and run returns that error.
C10_UnsatReturned ==
    [][/\ \A t \in Threads : UnsatDetected(t)
       /\ Returned' =>
            \A i \in failed' :
                cs.Instructions[i].kind = "R1C" =>
                    result' = Err("unsatisfied", cs.Instructions[i].cID)
      ]_vars

\* C10 as amended: solveR1C on a violated constraint returns the unsatisfied
\* constraint error with its index and sets nothing, and run returns that
\* error unless several instructions of the same parallel level failed, in
\* which case run returns the first error sent on the error channel.
C10_UnsatDetected ==
    [][/\ \A t \in Threads : UnsatDetected(t)
       /\ Returned' =>
            \A i \in failed' :
                cs.Instructions[i].kind = "R1C" =>
                    \/ result' = Err("unsatisfied", cs.Instructions[i].cID)
                    \/ Len(errLog') > 1 /\ result' = errLog'[1]
      ]_vars

\* C10 witness: x * x == y with a wrong y fails with the error of constraint 0
C10_Witness ==
    /\ scn = "assert" /\ Returned
    /\ result = Err("unsatisfied", 0)
    /\ nbSolved = 3 /\ setCount = [w \in Wires |-> 0]

(***************************************************************************)
(* Vocabulary of the properties of a one-instruction solve.  Pre is the    *)
(* solver as newSolver built it, which is the solver the instruction       *)
(* finds; the known part of a linear expression is the sum of its terms    *)
(* over solved wires, the value solveR1C accumulates for it.               *)
(***************************************************************************)
Pre == newSolver(system, wit)
TheInst == system.Instructions[0]
IsBuilt == newSolverErr(system, wit) = NoErr
\* the instruction has been handed to processInstruction
Called == 0 \in started
\* no call of set has written anything
StoreAsBuilt ==
    /\ values = Pre.values /\ solved = Pre.solved /\ nbSolved = Pre.nbSolved
    /\ \A w \in Wires : setCount[w] = 0

UnknownTerms(l) == {j \in DOMAIN l : ~Pre.solved[l[j].VID]}
NbUnknown(inst) ==
    Cardinality(UnknownTerms(inst.L)) + Cardinality(UnknownTerms(inst.R))
        + Cardinality(UnknownTerms(inst.O))
RECURSIVE EvalKnown(_)
EvalKnown(l) ==
    IF l = <<>> THEN 0
    ELSE ((IF Pre.solved[Head(l).VID]
           THEN Coefficients[Head(l).CID] * Pre.values[Head(l).VID] ELSE 0)
          + EvalKnown(Tail(l))) % q
\* the side of the single unknown (1: L, 2: R, 3: O) and its term
UnknownSide(inst) ==
    IF UnknownTerms(inst.L) # {} THEN 1 ELSE IF UnknownTerms(inst.R) # {} THEN 2 ELSE 3
UnknownTerm(inst) ==
    LET l == CASE UnknownSide(inst) = 1 -> inst.L
               [] UnknownSide(inst) = 2 -> inst.R
               [] OTHER -> inst.O
    IN  l[CHOOSE j \in UnknownTerms(l) : TRUE]
\* a single-constraint system of type R1CS with exactly one unknown term
OneUnknown ==
    /\ IsBuilt /\ system.Type = "R1CS" /\ TheInst.kind = "R1C"
    /\ NbUnknown(TheInst) = 1
\* the factor opposing an unknown on side L or R
Opposing(inst) == IF UnknownSide(inst) = 1 THEN EvalKnown(inst.R) ELSE EvalKnown(inst.L)
\* the raw solved term: O: a*b - c; L: c/b - a; R: c/a - b
RawTerm(inst) ==
    LET ka == EvalKnown(inst.L)
        kb == EvalKnown(inst.R)
        kc == EvalKnown(inst.O)
    IN  CASE UnknownSide(inst) = 3 -> (ka * kb + q - kc) % q
          [] UnknownSide(inst) = 1 ->
                ((CHOOSE v \in Fr : (v * kb) % q = kc) + q - ka) % q
          [] OTHER -> ((CHOOSE v \in Fr : (v * ka) % q = kc) + q - kb) % q
Holds(inst) == (EvalLE(inst.L) * EvalLE(inst.R)) % q = EvalLE(inst.O)

\* the unknown is on side O, or on side L or R with a non-zero opposing factor
Solvable == OneUnknown /\ (UnknownSide(TheInst) = 3 \/ Opposing(TheInst) # 0)

\* the unknown wire holds the value that makes the constraint hold
Solved(inst) ==
    /\ panicked = NoPanic
    /\ 0 \in finished =>
          /\ 0 \notin failed
          /\ solved[UnknownTerm(inst).VID]
          /\ setCount[UnknownTerm(inst).VID] = 1
          /\ Holds(inst)
          /\ (Coefficients[UnknownTerm(inst).CID] * values[UnknownTerm(inst).VID]) % q
                = RawTerm(inst)

\* C11 as claimed: when solveR1C finds exactly one unknown wire, on side O or
\* on side L or R with a non-zero opposing factor, it sets that wire to the
\* value that makes L * R == O hold, and coefficient * value is the raw term.
C11_SolvesUnknown == (Solvable /\ Called) => Solved(TheInst)

\* C11 as amended: the same, unless the coefficient id of the unknown term is
\* CoeffIdZero: then solveR1C aborts with 'division by 0' and sets no wire.
C11_SolvesUnknownOrDivZero ==
    (Solvable /\ Called) =>
        IF UnknownTerm(TheInst).CID = CoeffIdZero
        THEN panicked = [msg |-> PanicDivZero, by |-> 0] /\ StoreAsBuilt
        ELSE Solved(TheInst)

\* C11 witness: an unknown with a generic coefficient was given a non-zero value
C11_Witness ==
    /\ Solvable /\ 0 \in finished
    /\ UnknownTerm(TheInst).CID = 4
    /\ values[UnknownTerm(TheInst).VID] # 0

\* the single unknown is on side L or R and its opposing factor is zero
ZeroFactor == OneUnknown /\ UnknownSide(TheInst) # 3 /\ Opposing(TheInst) = 0

\* C12: with the unknown on side L and b zero (on side R and a zero) and c
\* non-zero, solveR1C returns the unsatisfied constraint error of the
\* constraint without dividing and the unknown wire is not set.
C12_ZeroFactorUnsat ==
    (ZeroFactor /\ EvalKnown(TheInst.O) # 0 /\ Called) =>
        /\ panicked = NoPanic
        /\ 0 \in failed
        /\ terr[0] = Err("unsatisfied", TheInst.cID)
        /\ ~solved[UnknownTerm(TheInst).VID]
        /\ StoreAsBuilt
        /\ a[TheInst.cID] = EvalKnown(TheInst.L)
        /\ b[TheInst.cID] = EvalKnown(TheInst.R)
        /\ c[TheInst.cID] = EvalKnown(TheInst.O)

\* C12 witness: unknown on side R, a zero and c non-zero: run returned the error
C12_Witness ==
    /\ ZeroFactor /\ UnknownSide(TheInst) = 2 /\ EvalKnown(TheInst.O) # 0
    /\ Returned /\ result = Err("unsatisfied", 0)

\* C13: with the unknown on side L or R, the opposing factor zero and c zero,
\* solveR1C only checks: the unknown wire stays unsolved and nbSolved is
\* unchanged.
C13_CheckOnly ==
    (ZeroFactor /\ EvalKnown(TheInst.O) = 0) =>
        /\ ~solved[UnknownTerm(TheInst).VID]
        /\ nbSolved = Pre.nbSolved

\* C14: a constraint with a second term over an unsolved wire makes solveR1C
\* abort with 'found more than one wire to instantiate', no wire being set.
C14_TwoUnknownsAbort ==
    (IsBuilt /\ system.Type = "R1CS" /\ TheInst.kind = "R1C"
       /\ NbUnknown(TheInst) >= 2 /\ Called) =>
        /\ panicked = [msg |-> PanicTwoWires, by |-> 0]
        /\ StoreAsBuilt
        /\ finished = {}

\* C14 witness: the same unsolved wire occurs twice in one side
C14_Witness ==
    /\ IsBuilt /\ TheInst.kind = "R1C" /\ Called
    /\ Cardinality(UnknownTerms(TheInst.L)) = 2
    /\ panicked.msg = PanicTwoWires

\* C15: if every level completes without error and a wire was never set, run
\* returns 'solver didn't assign a value to all wires'; it never returns nil
\* with an unsolved wire.
C15_IncompleteSolve ==
    (Returned /\ failed = {} /\ \E w \in Wires : ~solved[w]) => result = ErrIncomplete

\* C16: newSolver returns an error and no solver, so that no wire is set and
\* no instruction runs, whenever the witness length differs from
\* len(Public) - offset + len(Secret) or a hint the system depends on is not
\* in the registry.
C16_SetupErrors ==
    LET offset == IF system.Type = "R1CS" THEN 1 ELSE 0
        badSize == Len(wit) # system.nbPublic - offset + system.nbSecret
        badHints == ~(system.MHintsDependencies \subseteq system.mHintsFunctions)
    IN  (badSize \/ badHints) =>
            /\ result = IF badSize THEN ErrWitnessSize ELSE ErrMissingHints
            /\ \A t \in Threads : tpc[t] = "nosolver"
            /\ values = <<>> /\ solved = <<>> /\ nbSolved = 0
            /\ started = {} /\ hintCalls = <<>>
            /\ \A w \in Wires : setCount[w] = 0
            /\ ~ENABLED NextSeq

\* C16 witness: a witness of the right length and a registry without hint 2
C16_Witness ==
    /\ result = ErrMissingHints
    /\ Len(wit) = 2 /\ system.Type = "SCS"
    /\ tpc[0] = "nosolver"

\* C17: after a successful newSolver exactly the wires offset..offset +
\* len(witness) - 1 are solved and hold the witness in order, wire 0 of an
\* R1CS system is solved with value one, every other wire is unsolved, and
\* nbSolved is len(witness) + offset, the number of solved wires.
C17_InitialState ==
    LET offset == IF system.Type = "R1CS" THEN 1 ELSE 0 IN
    (tpc[0] # "nosolver" /\ started = {}) =>
        /\ DOMAIN values = 0..(system.nbPublic + system.nbSecret
                                  + system.NbInternalVariables - 1)
        /\ DOMAIN solved = DOMAIN values
        /\ \A w \in DOMAIN values :
              /\ solved[w] <=> \/ (w >= offset /\ w < offset + Len(wit))
                               \/ (system.Type = "R1CS" /\ w = 0)
              /\ (w >= offset /\ w < offset + Len(wit)) => values[w] = wit[w - offset + 1]
              /\ (system.Type = "R1CS" /\ w = 0) => values[w] = 1
        /\ nbSolved = Len(wit) + offset
        /\ nbSolved = Cardinality({w \in DOMAIN solved : solved[w]})

\* C17 witness: a system that is not R1CS is built: wire 0 holds the first
\* element of the witness, which is not one
C17_Witness ==
    /\ tpc[0] = "level" /\ started = {}
    /\ system.Type = "SCS" /\ values[0] = 3 /\ solved[1] /\ ~solved[2]

\* the instruction is a hint and the solver was built
HintCase == IsBuilt /\ TheInst.kind = "Hint"

\* C18: solveWithHint on a hint whose id is not in the registry returns
\* 'missing hint function', calls no external function and sets no wire.
C18_MissingHintFunction ==
    (HintCase /\ TheInst.HintID \notin system.mHintsFunctions /\ Called) =>
        /\ panicked = NoPanic
        /\ 0 \in failed
        /\ terr[0] = ErrMissingHint
        /\ hintCalls = <<>>
        /\ StoreAsBuilt

\* C18 witness: run returned the error of the lookup
C18_Witness ==
    /\ HintCase /\ Returned /\ result = ErrMissingHint

\* C19: when the external function returns an error, solveWithHint returns
\* that error after one call of the function, and processInstruction and run
\* return it as it is, not wrapped as an unsatisfied constraint error.
C19_HintErrorVerbatim ==
    (HintCase /\ TheInst.HintID \in system.mHintsFunctions
       /\ HintFn(TheInst.HintID, <<>>, 0).err # NoErr /\ 0 \in finished) =>
        /\ Len(hintCalls) = 1
        /\ hintCalls[1][1] = TheInst.HintID
        /\ 0 \in failed
        /\ terr[0] = ErrHint(TheInst.HintID)
        /\ Returned /\ result = ErrHint(TheInst.HintID)

\* C19 witness: run returned the error of hint function 2
C19_Witness ==
    /\ HintCase /\ Returned /\ result = ErrHint(2)
    /\ Len(hintCalls) = 1

\* C20: after solveWithHint returns nil for a hint with output range
\* [Start, End), every wire Start + i is solved and holds output i of the
\* function reduced modulo q, exactly End - Start wires became solved, and
\* the function was called once, with the value every input expression had
\* when solveWithHint was called.
C20_HintOutputs ==
    (HintCase /\ 0 \in finished /\ 0 \notin failed) =>
        LET h == TheInst
            n == h.End - h.Start
            ins == [i \in 1..Len(h.Inputs) |-> EvalOver(Pre.values, h.Inputs[i])]
        IN  /\ hintCalls = <<(<<h.HintID, ins>>)>>
            /\ \A i \in 0..(n - 1) :
                  /\ solved[h.Start + i]
                  /\ setCount[h.Start + i] = 1
                  /\ values[h.Start + i] = HintFn(h.HintID, ins, n).outputs[i + 1] % q
            /\ nbSolved = Pre.nbSolved + n
            /\ {w \in Wires : solved[w] /\ ~Pre.solved[w]} = h.Start..(h.End - 1)

\* C20 witness: a hint with two outputs has returned nil
C20_Witness ==
    /\ HintCase /\ 0 \in finished /\ 0 \notin failed
    /\ TheInst.End - TheInst.Start = 2
    /\ values[TheInst.Start] # values[TheInst.Start + 1]

(***************************************************************************)
(* The partition of a level.                                               *)
(***************************************************************************)
\* the level run is at, and the size of a slice
TheLevel == cs.Levels[lvl]
ChunkSize(ch) == ch[3] - ch[2]
\* the push loop of the current level is running or has ended
Pushing == lvl <= Len(cs.Levels) /\ tpc[0] \in {"push", "wait"}

\* C26: the slices pushed for a level are contiguous, in order and disjoint,
\* at most as many as the workers, of sizes that differ by at most one with
\* the larger slices first, and once the push loop has ended every position
\* of the level lies in exactly one slice.
C26_ChunkPartition ==
    Pushing =>
        /\ Len(chunks) <= nbTasks
        /\ \A i \in 1..Len(chunks) :
              /\ chunks[i][2] = (IF i = 1 THEN 0 ELSE chunks[i - 1][3])
              /\ chunks[i][2] <= chunks[i][3]
              /\ chunks[i][3] <= Len(TheLevel)
        /\ \A i, j \in 1..Len(chunks) :
              i < j => /\ ChunkSize(chunks[i]) >= ChunkSize(chunks[j])
                       /\ ChunkSize(chunks[i]) - ChunkSize(chunks[j]) <= 1
        /\ tpc[0] = "wait" =>
              \A p \in 0..(Len(TheLevel) - 1) :
                  Cardinality({i \in 1..Len(chunks) : p \in ChunkPositions(chunks[i])}) = 1

\* a level split into three slices, the first larger than the last
C26_Witness ==
    /\ Pushing /\ tpc[0] = "wait"
    /\ Len(chunks) = 3
    /\ ChunkSize(chunks[1]) > ChunkSize(chunks[3])

\* C27: whenever run is about to send a slice on the task channel, the
\* channel holds fewer slices than there are workers, so the send does not
\* block; no more slices than workers are pushed for a level, and the
\* channel is empty when run turns to a level.
C27_PushNeverBlocks ==
    /\ tpc[0] = "push" => Len(chTasks) < nbTasks /\ ENABLED CallerPush
    /\ Pushing => Len(chunks) <= nbTasks
    /\ tpc[0] = "level" => chTasks = <<>>

\* run sends the last slice of a second split level while the first slice
\* of that level is still in the channel
C27_Witness ==
    /\ lvl = 2 /\ tpc[0] = "push"
    /\ Len(chunks) = 1 /\ Len(chTasks) = 1
    /\ nbTasks = 2

\* C29: a level is run by the calling thread, with nothing pushed, exactly
\* if it has at most 50 instructions or the worker count is 1; otherwise it
\* is split and pushed to the workers.
C29_SequentialIff ==
    LET n == Len(cs.Levels[1])
        small == n <= 50 \/ nbTasks = 1
    IN  /\ (tpc[0] = "proc" \/ lvl = 2) => small /\ chTasks = <<>> /\ chunks = <<>> /\ wg = 0
        /\ (tpc[0] \in {"push", "wait"}) => ~small
        /\ (tpc[0] = "wait") => chunks # <<>>
        /\ (tpc[0] = "level" /\ lvl = 1) =>
              IF small THEN ENABLED CallerLevelSeq /\ ~ENABLED CallerLevelPar
                       ELSE ENABLED CallerLevelPar /\ ~ENABLED CallerLevelSeq

\* a level of exactly 50 instructions run by the calling thread although
\* there are several workers
C29_Witness ==
    /\ tpc[0] = "proc" /\ Len(cs.Levels[1]) = 50 /\ nbTasks > 1
    /\ chTasks = <<>>

(***************************************************************************)
(* Terms over unsolved wires.                                              *)
(***************************************************************************)
\* the terms of the inputs of hint h that are not constant, have a non-zero
\* coefficient id and are over a wire that is not solved in the store S
UnsolvedInputTerms(S, h) ==
    {t \in UNION {Range(h.Inputs[i]) : i \in DOMAIN h.Inputs} :
        ~IsConstant(t) /\ t.CID # CoeffIdZero /\ ~S.solved[t.VID]}

\* C23: a call of solver.solveWithHint whose inputs hold a non-constant
\* term with non-zero coefficient over an unsolved wire aborts fatally
\* before the external function is called.
C23_UnsolvedTermAborts ==
    (HintCase /\ TheInst.HintID \in system.mHintsFunctions /\ Called
       /\ UnsolvedInputTerms(Pre, TheInst) # {}) =>
        /\ panicked # NoPanic
        /\ hintCalls = <<>>

(***************************************************************************)
(* The routines called on their own.                                       *)
(***************************************************************************)
\* the routine called, its first argument, and whether it has returned
Applied(fn) == call.fn = fn
Arg == call.args[1]
\* a call leaves the value store as it is
StoreKept == [][call' # call => UNCHANGED store]_vars

\* C24: over a solved wire of value v, computeTerm gives 0, v, 2v and -v for
\* the coefficient ids 0, 1, 2, 3, which is the product of the table entry
\* and v that the generic path computes for any id, and accumulateInto adds
\* that product; and whenever computeTerm(t) returns, for a term over a wire
\* or a constant, accumulateInto(t, r) gives r + computeTerm(t).
C24_FastPathEquivalence ==
    /\ (Applied("computeTerm") \/ Applied("solution.computeTerm"))
         /\ ~IsConstant(Arg) /\ solved[Arg.VID] =>
            LET v == values[Arg.VID] IN
            /\ ret.panic = ""
            /\ ret.res = (Coefficients[Arg.CID] * v) % q
            /\ Arg.CID = 0 => ret.res = 0
            /\ Arg.CID = 1 => ret.res = v
            /\ Arg.CID = 2 => ret.res = (2 * v) % q
            /\ Arg.CID = 3 => (ret.res + v) % q = 0
    /\ Applied("accumulateInto") =>
            LET r == call.args[2] IN
            /\ ~IsConstant(Arg) /\ solved[Arg.VID] =>
                    ret.res = (r + Coefficients[Arg.CID] * values[Arg.VID]) % q
            /\ computeTerm(Cur, Arg).panic = "" =>
                    ret.res = (r + computeTerm(Cur, Arg).res) % q

\* accumulateInto has subtracted a non-zero value through the fast path of -1
C24_Witness ==
    /\ Applied("accumulateInto") /\ Arg.CID = CoeffIdMinusOne /\ ~IsConstant(Arg)
    /\ solved[Arg.VID] /\ values[Arg.VID] = 2 /\ call.args[2] = 1
    /\ ret.res = q - 1

\* C25: computeTerm returns the coefficient of a constant term whatever the
\* store holds; for a term over a wire it returns if the wire is solved and
\* aborts fatally if it is not; it leaves the value store as it is.
C25_ComputeTerm ==
    /\ [](Applied("computeTerm") =>
            IF IsConstant(Arg) THEN ret.panic = "" /\ ret.res = Coefficients[Arg.CID]
            ELSE IF solved[Arg.VID] THEN ret.panic = ""
            ELSE ret.panic = PanicUnsolvedTerm /\ panicked # NoPanic)
    /\ StoreKept

\* C25 as the code has it: a term over a wire with coefficient id zero gives
\* zero whether the wire is solved or not; the wire has to be solved for
\* every other coefficient id.
C25_ComputeTermNonZero ==
    /\ [](Applied("computeTerm") =>
            IF IsConstant(Arg) THEN ret.panic = "" /\ ret.res = Coefficients[Arg.CID]
            ELSE IF Arg.CID = CoeffIdZero THEN ret.panic = "" /\ ret.res = 0
            ELSE IF solved[Arg.VID]
            THEN ret.panic = "" /\ ret.res = (Coefficients[Arg.CID] * values[Arg.VID]) % q
            ELSE ret.panic = PanicUnsolvedTerm /\ panicked # NoPanic)
    /\ [](Applied("solution.computeTerm") =>
            IF Arg.CID = CoeffIdZero THEN ret.panic = "" /\ ret.res = 0
            ELSE IF solved[Arg.VID]
            THEN ret.panic = "" /\ ret.res = (Coefficients[Arg.CID] * values[Arg.VID]) % q
            ELSE ret.panic = PanicUnsolvedTerm /\ panicked # NoPanic)
    /\ StoreKept

\* computeTerm has returned zero for 0 * y with y unsolved
C25_Witness ==
    /\ Applied("computeTerm") /\ ~IsConstant(Arg) /\ Arg.CID = CoeffIdZero
    /\ ~solved[Arg.VID]
    /\ ret.panic = "" /\ ret.res = 0

\* every wire of the terms of l that are not constant is solved
AllSolved(l) == \A k \in DOMAIN l : IsConstant(l[k]) \/ solved[l[k].VID]

\* C28: logValue never aborts and leaves the value store as it is; what it
\* substitutes for expression j is the base 10 text of the sum of the
\* expression if every wire of its terms that are not constant is solved,
\* and the placeholder "<unsolved>" if not, whatever the other expressions
\* of the entry are.
C28_LogValue ==
    /\ [](Applied("logValue") =>
            /\ ret.panic = "" /\ panicked = NoPanic
            /\ ret.res.format = Arg.Format
            /\ Len(ret.res.args) = Len(Arg.ToResolve) + (IF Arg.Stack = <<>> THEN 0 ELSE 1)
            /\ \A j \in DOMAIN Arg.ToResolve :
                  ret.res.args[j] = IF AllSolved(Arg.ToResolve[j])
                                    THEN Itoa(EvalLE(Arg.ToResolve[j]))
                                    ELSE "<unsolved>")
    /\ StoreKept

\* an entry of two expressions: the first over an unsolved wire, the second
\* with a sum that is not zero
C28_Witness ==
    /\ Applied("logValue") /\ Len(Arg.ToResolve) = 2
    /\ ret.res.args[1] = "<unsolved>"
    /\ ret.res.args[2] = "3"

(***************************************************************************)
(* Hints that depend on hints.                                             *)
(***************************************************************************)
\* the wires of the terms of the inputs of hint h that are not constant
HintInputWires(h) ==
    {t.VID : t \in {t \in UNION {Range(h.Inputs[i]) : i \in DOMAIN h.Inputs} :
                        ~IsConstant(t)}}
\* thread t takes a step of solveWithHint
SolMoves(t) ==
    tpc'[t] # tpc[t] \/ hstack'[t] # hstack[t] \/ (panicked' # panicked /\ panicked'.by = t)
\* thread t is at a term over an unsolved wire
AtUnsolved(t) ==
    /\ tpc[t] = "hTerm" /\ panicked = NoPanic
    /\ Top(t).i <= Len(Top(t).h.Inputs) /\ Top(t).j <= Len(Top(t).h.Inputs[Top(t).i])
    /\ ~IsConstant(TopTerm(t)) /\ ~solved[TopTerm(t).VID]

\* C22: when solution.solveWithHint calls the external function of a hint,
\* every wire of the non-constant terms of the hint's inputs is solved; at a
\* term over an unsolved wire the next step of the thread is the call of
\* solveWithHint for the hint the wire is an output of, if there is one, and
\* the fatal abort if there is none, and no function is called in that
\* step; a call that waits for a hint it depends on waits at the term whose
\* wire that hint gives.
C22_InputsSolvedAtCall ==
    /\ [](\A t \in Workers :
            /\ tpc[t] = "hCall" => \A w \in HintInputWires(Top(t).h) : solved[w]
            /\ \A k \in 2..Len(hstack[t]) :
                  LET f == hstack[t][k] IN
                  /\ f.h.Inputs[f.i][f.j].VID = hstack[t][k - 1].vID
                  /\ hstack[t][k - 1].h = cs.mHints[hstack[t][k - 1].vID])
    /\ [](\A k \in DOMAIN hintCalls : Len(hintCalls[k][2]) = Len(cs.mHints[hintCalls[k][3][1]].Inputs))
    /\ [][\A t \in Workers :
            AtUnsolved(t) /\ SolMoves(t) =>
                /\ hintCalls' = hintCalls
                /\ IF TopTerm(t).VID \in DOMAIN cs.mHints
                   THEN /\ hstack'[t] = <<Frame(TopTerm(t).VID)>> \o hstack[t]
                        /\ tpc'[t] = "hEnter" /\ panicked' = NoPanic
                   ELSE /\ panicked' = [msg |-> PanicHintInput, by |-> t]
                        /\ hstack'[t] = hstack[t]]_vars

\* the function of C is called after solveWithHint, called for C, has called
\* itself for B and, from there, for A
C22_Witness ==
    \E t \in Workers :
        /\ tpc[t] = "hCall" /\ Top(t).h = HintC("chain") /\ Len(hstack[t]) = 1
        /\ Len(hintCalls) = 2
        /\ hintCalls[1][3] = <<2, 3>> /\ hintCalls[2][3] = <<4>>
        /\ hreach[t] = <<>>

\* C30: with two threads in solveWithHint for distinct hints whose inputs
\* are over outputs of the same unsolved hint, the function of each hint is
\* called at most once, every wire is set at most once, and no thread
\* aborts on a wire solved twice.
C30_SharedHintOnce ==
    nbTasks = 2 =>
        /\ \A k1, k2 \in DOMAIN hintCalls : hintCalls[k1][3] = hintCalls[k2][3] => k1 = k2
        /\ \A w \in Wires : setCount[w] <= 1
        /\ panicked.msg # PanicSameWire

\* C21: a call of solveWithHint for a hint whose first output wire is
\* already solved returns nil, calls no external function and sets no wire.
C21_SolvedOutputNoOp ==
    (HintCase /\ TheInst.HintID \in system.mHintsFunctions
       /\ TheInst.Start < TheInst.End /\ Pre.solved[TheInst.Start] /\ Called) =>
        /\ hintCalls = <<>>
        /\ panicked = NoPanic
        /\ StoreAsBuilt
        /\ 0 \notin failed

\* the threads that are inside a call of set
InSet == {t \in Threads : tpc[t] \in {"setCheck", "setValue", "setSolved", "setAdd"}}

\* C34: in every state in which no set is in progress, nbSolved is the
\* number of wires whose solved flag is true; nbSolved never decreases and
\* never exceeds the number of wires.
C34_SolvedCount ==
    /\ [](InSet = {} => nbSolved = Cardinality({w \in Wires : solved[w]}))
    /\ [](nbSolved <= Cardinality(Wires))
    /\ [][nbSolved' >= nbSolved]_vars

\* C35: when the external function returns an error, solveWithHint has set
\* every output wire of the hint to the content of its output buffer,
\* reduced modulo q, and incremented nbSolved for each, before it returns
\* the error: the store is not as it was before the call.
C35_HintErrorSetsOutputs ==
    (HintCase /\ TheInst.HintID \in system.mHintsFunctions
       /\ HintFn(TheInst.HintID, <<>>, 0).err # NoErr /\ 0 \in finished) =>
        LET h == TheInst
            n == h.End - h.Start
            ins == [i \in 1..Len(h.Inputs) |-> EvalOver(Pre.values, h.Inputs[i])]
            f == HintFn(h.HintID, ins, n)
        IN  /\ 0 \in failed /\ terr[0] = f.err
            /\ \A i \in 0..(n - 1) :
                  /\ solved[h.Start + i]
                  /\ setCount[h.Start + i] = 1
                  /\ values[h.Start + i] = f.outputs[i + 1] % q
            /\ nbSolved = Pre.nbSolved + n
            /\ n > 0 => ~StoreAsBuilt

\* C35 witness: a function that wrote two outputs returned an error, and
\* both output wires are solved
C35_Witness ==
    /\ HintCase /\ 0 \in finished /\ 0 \in failed
    /\ TheInst.HintID = 3 /\ terr[0] = ErrHint(3)
    /\ TheInst.End - TheInst.Start = 2
    /\ solved[TheInst.Start] /\ solved[TheInst.Start + 1]
    /\ values[TheInst.Start] # 0 /\ values[TheInst.Start] # values[TheInst.Start + 1]

\* C36: solveR1C stores the raw solved term divided by the coefficient of
\* the unknown term: coefficient id one stores the raw term itself, minus-one
\* its negation, any other non-zero id the field quotient of the raw term by
\* the table entry, and coefficient id zero aborts with 'division by 0'
\* before the wire is set.
C36_DivByCoeff ==
    (Solvable /\ Called) =>
        LET t == UnknownTerm(TheInst)
            raw == RawTerm(TheInst)
            stored == /\ panicked = NoPanic
                      /\ 0 \in finished => solved[t.VID] /\ setCount[t.VID] = 1
        IN  CASE t.CID = CoeffIdOne ->
                    stored /\ (0 \in finished => values[t.VID] = raw)
              [] t.CID = CoeffIdMinusOne ->
                    stored /\ (0 \in finished => (values[t.VID] + raw) % q = 0)
              [] t.CID = CoeffIdZero ->
                    panicked = [msg |-> PanicDivZero, by |-> 0] /\ StoreAsBuilt
              [] OTHER ->
                    /\ stored
                    /\ Coefficients[t.CID] # 0
                    /\ 0 \in finished =>
                          values[t.VID] =
                              (CHOOSE v \in Fr : (v * Coefficients[t.CID]) % q = raw)

\* C36 witness: an unknown with coefficient id two was set to half a raw
\* term that is not zero
C36_Witness ==
    /\ Solvable /\ 0 \in finished
    /\ UnknownTerm(TheInst).CID = CoeffIdTwo
    /\ RawTerm(TheInst) # 0
    /\ values[UnknownTerm(TheInst).VID] # RawTerm(TheInst)

\* the instruction is of a blueprint with any set of interfaces and
\* processInstruction has returned
BlueprintCase == IsBuilt /\ TheInst.kind = "Custom" /\ 0 \in finished
\* processInstruction returned nil after the only call of set, on wire w
\* with value v
SetOnly(w, v) ==
    /\ 0 \notin failed /\ terr[0] = NoErr
    /\ solved[w] /\ values[w] = v
    /\ \A u \in Wires : setCount[u] = IF u = w THEN 1 ELSE 0
    /\ nbSolved = Pre.nbSolved + 1

\* C37: processInstruction takes the first of four branches that applies:
\* solveR1C for a blueprint that is a BlueprintR1C in a system of type R1CS
\* (it sets y = x); else the blueprint's own Solve for a BlueprintSolvable,
\* whose error is returned as an unsatisfied constraint error with the
\* constraint index of the instruction; else solveWithHint for a
\* BlueprintHint, whose error is returned as it is; else nothing: it returns
\* nil, sets no wire and calls no function.
C37_DispatchPriority ==
    BlueprintCase =>
        LET inst == TheInst
            x == Pre.values[1]
            in == EvalOver(Pre.values, inst.Inputs[1])
            f == HintFn(inst.HintID, <<in>>, 1)
        IN  /\ panicked = NoPanic
            /\ IF system.Type = "R1CS" /\ "BlueprintR1C" \in inst.Implements
               THEN hintCalls = <<>> /\ SetOnly(2, x)
               ELSE IF "BlueprintSolvable" \in inst.Implements
               THEN /\ hintCalls = <<>>
                    /\ IF inst.Solve = "set"
                       THEN SetOnly(2, (2 * x) % q)
                       ELSE /\ 0 \in failed
                            /\ terr[0] = [kind |-> "unsatisfied", CID |-> inst.cID]
                            /\ result = terr[0]
                            /\ StoreAsBuilt
               ELSE IF "BlueprintHint" \in inst.Implements
               THEN /\ hintCalls = <<(<<inst.HintID, <<in>> >>)>>
                    /\ IF f.err = NoErr
                       THEN SetOnly(3, f.outputs[1] % q)
                       ELSE /\ 0 \in failed
                            /\ terr[0] = [kind |-> "hint", CID |-> inst.HintID]
                            /\ result = terr[0]
               ELSE /\ hintCalls = <<>>
                    /\ 0 \notin failed /\ terr[0] = NoErr
                    /\ StoreAsBuilt

\* C37 witness: in a system that is not of type R1CS, the Solve of a
\* blueprint with all three interfaces failed on constraint 1: no hint
\* function was called and the error carries index 1
C37_Witness ==
    /\ BlueprintCase /\ system.Type = "SCS"
    /\ TheInst.Implements = Interfaces /\ TheInst.Solve = "fail" /\ TheInst.cID = 1
    /\ terr[0] = [kind |-> "unsatisfied", CID |-> 1]
    /\ hintCalls = <<>>

\* the workers that hold a slice whose wg.Done() is still to come, the
\* workers that wait on chTasks and the workers whose goroutine has ended
Holding == {w \in Workers : tpc[w] \notin {"recv", "exited"}}
Waiting == {w \in Workers : tpc[w] = "recv"}
Exited == {w \in Workers : tpc[w] = "exited"}
Aborted == panicked # NoPanic

\* C32: under a scheduler that runs what can run, the barrier of a parallel
\* level is always passed and run returns (or the program is aborted),
\* however many slices of the level fail; a worker that is to send on
\* chError can send, wg counts the slices that are queued or held by a
\* worker, each taken off exactly once, and for every queued slice a worker
\* is waiting on chTasks.
C32_BarrierLiveness ==
    /\ [](\A w \in Workers :
             (tpc[w] = "sendErr" /\ ~Aborted) => ENABLED WorkerSendErr(w))
    /\ [](wg = Len(chTasks) + Cardinality(Holding))
    /\ [](Len(chTasks) <= Cardinality(Waiting))
    /\ [][wg' < wg => wg' = wg - 1 /\ Cardinality(Holding') = Cardinality(Holding) - 1]_vars
    /\ (tpc[0] = "wait" ~> (tpc[0] = "check" \/ Aborted))
    /\ <>(Returned \/ Aborted)

\* C32 witness: both slices of a level failed, both workers have ended and
\* run has returned the first error
C32_Witness ==
    /\ Returned /\ nbTasks = 2
    /\ Len(errLog) = 2 /\ result = errLog[1]
    /\ Exited = Workers

\* C33: the set of workers never changes and an ended worker stays ended; a
\* worker that is not waiting on chTasks can take a step; when run has
\* returned, chTasks is closed and empty and every worker is waiting on it
\* or has ended; and from then on every worker ends.
C33_PoolLifecycle ==
    /\ [][/\ DOMAIN tpc' = DOMAIN tpc
          /\ \A w \in Workers : tpc[w] = "exited" => tpc'[w] = "exited"]_vars
    /\ [](\A w \in Workers :
             (w \in Holding /\ ~Aborted) =>
                 ENABLED (\/ Proc(w) \/ SetCheck(w) \/ SetValue(w) \/ SetSolved(w)
                          \/ SetAdd(w) \/ WorkerSendErr(w) \/ WorkerErrDone(w)
                          \/ WorkerDone(w)))
    /\ [](Returned => closed /\ chTasks = <<>> /\ Holding = {})
    /\ (Returned ~> Exited = Workers)

\* C33 witness: run has returned the error of a parallel level; the worker
\* that failed has ended and the other is still waiting on the closed queue
C33_Witness ==
    /\ Returned /\ nbTasks = 2 /\ result # NoErr /\ Len(errLog) = 1
    /\ Cardinality(Exited) = 1 /\ Cardinality(Waiting) = 1

\* the number of hints on the longest chain of hints that starts at the hint
\* of wire w, each over an output of the next, counted up to n hints
RECURSIVE ChainLen(_, _)
ChainLen(w, n) ==
    IF n = 0 THEN 0
    ELSE LET deps == {v \in HintInputWires(cs.mHints[w]) : v \in DOMAIN cs.mHints}
             lens == {ChainLen(v, n - 1) : v \in deps}
         IN  1 + (IF lens = {} THEN 0 ELSE CHOOSE m \in lens : \A k \in lens : k <= m)
NbHints == Cardinality({cs.mHints[w] : w \in DOMAIN cs.mHints})
\* every thread is through with the hint outputs it reaches
HintsDone == \A t \in Workers : tpc[t] \in {"exited", "failed"}

\* C31: with hints that do not depend on themselves and functions that
\* return, every call of solveWithHint returns (or the program is aborted,
\* which a single thread does only for an input over an unsolved wire that
\* is no hint output): the calls in progress in a thread are never more than
\* the hints on the longest chain from the hint first called, a recursive
\* call that returns nil leaves its wire solved, and in the end no call is
\* in progress.
C31_RecursionTerminates ==
    /\ [](\A t \in Workers :
             hstack[t] # <<>> =>
                 Len(hstack[t]) <= ChainLen(hstack[t][Len(hstack[t])].vID, NbHints))
    /\ [][\A t \in Workers :
             (Len(hstack[t]) > 1 /\ hstack'[t] = Tail(hstack[t]) /\ terr[t] = NoErr) =>
                 solved[Top(t).vID]]_vars
    /\ [](Aborted => nbTasks = 2 \/ panicked.msg = PanicHintInput)
    /\ [](HintsDone => \A t \in Workers : hstack[t] = <<>>)
    /\ <>(HintsDone \/ Aborted)

\* C31 witness: the call for the last hint of a chain of three has returned
\* after three calls were in progress at once, and the thread is done
C31_Witness ==
    /\ nbTasks = 1 /\ system.mHints[5] = HintC("chain")
    /\ HintsDone /\ tpc[1] = "exited"
    /\ Len(hintCalls) = 3
    /\ hintCalls[1][3] = <<2, 3>> /\ hintCalls[2][3] = <<4>> /\ hintCalls[3][3] = <<5>>

====
